---- MODULE Spec2Model ----
(***************************************************************************)
(* A model of the fletchck service monitor: the check engine               *)
(* (check.py: BaseCheck.update, sequenceCheck, remoteCheck), the site      *)
(* operations (util.py: loadSite, addCheck, deleteCheck) and the trigger   *)
(* codec (util.py: trigger2Text, text2Trigger).                            *)
(*                                                                         *)
(* Python objects live in `heap` (a sequence of probe records; an object   *)
(* is named by its index), because depends / checks hold object            *)
(* references, not names.  Python dicts are insertion-ordered and are      *)
(* modelled as sequences of [k, v] entries.                                *)
(***************************************************************************)
EXTENDS Integers, Sequences, FiniteSets, TLC

\* ---------------------------------------------------------------- bounds
\* handlers (scheduled updates, remote reports) run in one behaviour
MaxClock == 3
\* largest threshold a configuration document of Documents asks for
MaxThreshold == 2
\* largest retries value a configuration document of Documents asks for
MaxRetries == 2
\* nesting of update() calls followed before the interpreter gives up
MaxDepth == 3

VARIABLES
    heap,      \* the probe objects ever built, by object id
    pre,       \* heap as the last handler found it
    checks,    \* site.checks: ordered dict name -> object id
    actions,   \* site.actions: the action names configured
    jobs,      \* the scheduler's job table: ordered dict job id -> object id
    scheduler, \* "none" before loadSite succeeds, then "running"
    clock,     \* the wall clock, one tick per handler
    sent,      \* action.trigger(probe) calls made by the last handler, in order
    ran,       \* names of the probes whose _runCheck the last handler called
    outs,      \* [id, cur]: the outcome of each retry loop the last handler finished
    last,      \* the last handler: [op, id, ret], exc for an exception that left it
    prior,     \* the site as the last addCheck found it
    codec,     \* the trigger editor: [step, zones, t, text, back]
    files,     \* the directory of the configuration file: [dir, inodes]
    save,      \* saveSite's position and locals: [pc, n, base, tmpName, tfile, at]
    reader,    \* another process reading the configuration: [pc, ino, seen]
    siteLog,   \* site.log: the records LogHandler kept, oldest first
    threads,   \* the update() calls in progress: a set of [task, stack]
    main,      \* FletchSite.run, the main coroutine: [pc, ret, ...]
    serialLock, \* check._serialLock and its Lock objects: [reg, locks]
    ups        \* the threads running a UPS probe's _runCheck, by thread

\* the site's probes and jobs, the last handler and the trigger editor
coreVars == <<heap, pre, checks, actions, jobs, scheduler, clock, sent, ran, outs,
              last, prior, codec>>

\* the configuration file and the processes using it
fileVars == <<files, save, reader>>

\* the threads and the main coroutine of a running site
taskVars == <<threads, main>>

\* the serial port locks and the threads using them
lockVars == <<serialLock, ups>>

\* the state outside the site's probes and the trigger editor
extVars == <<fileVars, siteLog, taskVars, lockVars>>

vars == <<coreVars, extVars>>

\* nothing is being saved or read
NoFiles == [dir |-> <<>>, inodes |-> <<>>]

NoSave == [pc |-> "none"]

NoReader == [pc |-> "none"]

\* run() has not been entered
NoMain == [pc |-> "none", ret |-> 0]

\* the check module has not been imported
NoLocks == [reg |-> <<>>, locks |-> <<>>]

FilesIdle ==
    /\ files = NoFiles
    /\ save = NoSave
    /\ reader = NoReader

TasksIdle ==
    /\ threads = {}
    /\ main = NoMain

LocksIdle ==
    /\ serialLock = NoLocks
    /\ ups = <<>>

ExtIdle ==
    /\ FilesIdle
    /\ siteLog = <<>>
    /\ TasksIdle
    /\ LocksIdle

\* ------------------------------------------------------- Python values
\* failState is a bool or a str, softFail is None or a str.
PyNone == [ty |-> "none", b |-> FALSE, s |-> ""]

PyBool(x) == [ty |-> "bool", b |-> x, s |-> ""]

PyStr(x) == [ty |-> "str", b |-> FALSE, s |-> x]

\* Python truthiness of None, a bool or a str
Truthy(v) == IF v.ty = "bool" THEN v.b ELSE (v.ty = "str" /\ v.s # "")

\* ------------------------------------------------ insertion-ordered dict
DictHas(d, k) == \E i \in 1..Len(d) : d[i].k = k

DictGet(d, k) == d[CHOOSE i \in 1..Len(d) : d[i].k = k].v

\* d[k] = v: an existing key keeps its position, a new key goes last
DictSet(d, k, v) ==
    IF DictHas(d, k)
    THEN [i \in 1..Len(d) |-> IF d[i].k = k THEN [k |-> k, v |-> v] ELSE d[i]]
    ELSE Append(d, [k |-> k, v |-> v])

\* del d[k]
DictDel(d, k) == SelectSeq(d, LAMBDA e : e.k # k)

DictKeys(d) == [i \in 1..Len(d) |-> d[i].k]

DictKeySet(d) == {d[i].k : i \in 1..Len(d)}

SeqSet(s) == {s[i] : i \in 1..Len(s)}

\* ','.join(names)
RECURSIVE Join(_)
Join(names) ==
    IF names = <<>> THEN ""
    ELSE IF Len(names) = 1 THEN names[1]
    ELSE names[1] \o "," \o Join(Tail(names))

\* ------------------------------------------------------------- triggers
\* A probe's trigger as the site sees it: absent, or a dict with an
\* "interval" or "cron" key whose options the scheduler accepts or rejects,
\* or a dict with neither key.
NoTrigger == [kind |-> "none", ok |-> TRUE]

\* ------------------------------------------------------ probe objects
CHECK_TYPES == {"https", "sequence", "remote"}

\* BaseCheck.__init__ (and sequenceCheck.__init__: checks = {})
BaseCheck(name, options) ==
    [ name |-> name, failAction |-> TRUE, passAction |-> TRUE,
      threshold |-> 1, retries |-> 1, priority |-> 0,
      options |-> options, checkType |-> "None", subType |-> "None",
      trigger |-> NoTrigger,
      actions |-> <<>>, depends |-> <<>>, checks |-> <<>>,
      failState |-> PyBool(TRUE), softFail |-> PyNone, failCount |-> 0,
      log |-> <<>>, oldLog |-> <<>>,
      lastFail |-> 0, lastPass |-> 0, lastCheck |-> 0, lastUpdate |-> 0 ]

\* Configuration entries.  A key that is absent from the document is given
\* the value the loader ignores: threshold / retries 0, data.has FALSE,
\* data.failCount / data.threshold -1, data.lastFail / data.lastPass 0 (not
\* a string), data.log the empty list.
NoData ==
    [has |-> FALSE, failState |-> PyNone, failCount |-> -1, threshold |-> -1,
     lastFail |-> 0, lastPass |-> 0, log |-> <<>>]

NoOptions == [checks |-> <<>>, timeout |-> 0]

\* loadCheck: the object built for a flat config, or the config's type is
\* unknown and the result is None (ok = FALSE).  config.data is read after
\* the config's own keys, so data.threshold wins over config.threshold.
loadCheck(name, config) ==
    IF config.type \in CHECK_TYPES
    THEN [ok |-> TRUE,
          c |-> [BaseCheck(name, config.options) EXCEPT
                    !.checkType = config.type,
                    !.trigger = config.trigger,
                    !.threshold = IF config.data.has /\ config.data.threshold >= 0
                                  THEN config.data.threshold
                                  ELSE IF config.threshold > 0 THEN config.threshold
                                  ELSE @,
                    !.retries = IF config.retries > 0 THEN config.retries ELSE @,
                    !.priority = config.priority,
                    !.failAction = config.failAction,
                    !.passAction = config.passAction,
                    !.failState = IF config.data.has
                                     /\ config.data.failState.ty \in {"bool", "str"}
                                  THEN config.data.failState ELSE @,
                    !.failCount = IF config.data.has /\ config.data.failCount >= 0
                                  THEN config.data.failCount ELSE @,
                    !.lastFail = IF config.data.has /\ config.data.lastFail # 0
                                 THEN config.data.lastFail ELSE @,
                    !.lastPass = IF config.data.has /\ config.data.lastPass # 0
                                 THEN config.data.lastPass ELSE @,
                    !.log = IF config.data.has THEN config.data.log ELSE @]]
    ELSE [ok |-> FALSE, c |-> BaseCheck(name, config.options)]

\* BaseCheck.add_action for each configured action the site knows:
\* self.actions is a dict, a name listed twice keeps its first position
RECURSIVE AddActions(_, _, _)
AddActions(c, names, siteActions) ==
    IF names = <<>> THEN c
    ELSE LET a == Head(names)
             c1 == IF a \in siteActions /\ a \notin SeqSet(c.actions)
                   THEN [c EXCEPT !.actions = Append(c.actions, a)] ELSE c
         IN AddActions(c1, Tail(names), siteActions)

\* BaseCheck.add_depend: `check is not self` compares objects; the key is
\* the other object's name
add_depend(h, c, selfId, otherId) ==
    IF otherId # selfId
    THEN [c EXCEPT !.depends = DictSet(c.depends, h[otherId].name, otherId)]
    ELSE c

\* BaseCheck.del_depend
del_depend(c, name) == [c EXCEPT !.depends = DictDel(c.depends, name)]

\* sequenceCheck.add_check
add_check(h, c, selfId, otherId) ==
    IF otherId # selfId
    THEN [c EXCEPT !.checks = DictSet(c.checks, h[otherId].name, otherId)]
    ELSE c

\* sequenceCheck.del_check
del_check(c, name) == [c EXCEPT !.checks = DictDel(c.checks, name)]

\* ------------------------------------------------------- the check engine
\* A handler threads st = [heap, sent, ran, outs, exc, raises] through the
\* calls it makes; exc is "" or the name of the exception that is
\* propagating, raises the actions that fail during the handler.

\* notify calling the remaining actions after a trigger() raised
notify_CallAll(st, id) ==
    LET c == st.heap[id]
    IN [st EXCEPT !.sent = st.sent \o
            [i \in 1..Len(c.actions) |->
                [check |-> c.name, action |-> c.actions[i],
                 failState |-> c.failState,
                 lastFail |-> c.lastFail, lastPass |-> c.lastPass]],
                  !.exc = IF \E i \in 1..Len(c.actions) : c.actions[i] \in st.raises
                          THEN "ActionError" ELSE @]

\* BaseCheck.notify: trigger each attached action, in the dict's order.
\* st.raises are the actions whose trigger() raises during this handler:
\* the first of them that is called ends the loop and the exception
\* propagates
notify(st, id) ==
    LET c == st.heap[id]
        bad == {i \in 1..Len(c.actions) : c.actions[i] \in st.raises}
        n == IF bad = {} THEN Len(c.actions)
             ELSE CHOOSE i \in bad : \A j \in bad : i <= j
    IN [st EXCEPT !.sent = st.sent \o
            [i \in 1..n |->
                [check |-> c.name, action |-> c.actions[i],
                 failState |-> c.failState,
                 lastFail |-> c.lastFail, lastPass |-> c.lastPass]],
                  !.exc = IF bad = {} THEN @ ELSE "ActionError"]

\* update() without the test of the dependencies
FirstFailDep_None(h, depends) == 0

\* FirstFailDep reporting the last failing dependency instead of the first
FirstFailDep_Last(h, depends) ==
    LET failing == {i \in 1..Len(depends) : Truthy(h[depends[i].v].failState)}
    IN IF failing = {} THEN 0
       ELSE CHOOSE i \in failing : \A j \in failing : i >= j

\* BaseCheck.update, `for d in self.depends: if self.depends[d].failState`:
\* the position of the first failing dependency, 0 when there is none
FirstFailDep(h, depends) ==
    LET failing == {i \in 1..Len(depends) : Truthy(h[depends[i].v].failState)}
    IN IF failing = {} THEN 0
       ELSE CHOOSE i \in failing : \A j \in failing : i <= j

\* BaseCheck.update, the soft-fail branch
SoftFail(c, d) ==
    [c EXCEPT !.softFail = PyStr(d),
              !.log = <<"SOFTFAIL (depends=" \o d \o ")">>]

\* ApplyOutcome without the threshold test
ApplyOutcome_NoThreshold(c, curFail, thisTime) ==
    IF Truthy(curFail)
    THEN LET c1 == [c EXCEPT !.failCount = c.failCount + 1]
         IN IF curFail # c1.failState
            THEN [c |-> [c1 EXCEPT !.failState = curFail, !.lastFail = thisTime],
                  notify |-> c1.failAction]
            ELSE [c |-> c1, notify |-> FALSE]
    ELSE LET c1 == [c EXCEPT !.failCount = 0]
         IN IF Truthy(c1.failState)
            THEN [c |-> [c1 EXCEPT !.failState = curFail, !.lastPass = thisTime],
                  notify |-> c1.passAction]
            ELSE [c |-> c1, notify |-> FALSE]

\* ApplyOutcome with `failCount > threshold`
ApplyOutcome_LateTransition(c, curFail, thisTime) ==
    IF Truthy(curFail)
    THEN LET c1 == [c EXCEPT !.failCount = c.failCount + 1]
         IN IF c1.failCount > c1.threshold /\ curFail # c1.failState
            THEN [c |-> [c1 EXCEPT !.failState = curFail, !.lastFail = thisTime],
                  notify |-> c1.failAction]
            ELSE [c |-> c1, notify |-> FALSE]
    ELSE LET c1 == [c EXCEPT !.failCount = 0]
         IN IF Truthy(c1.failState)
            THEN [c |-> [c1 EXCEPT !.failState = curFail, !.lastPass = thisTime],
                  notify |-> c1.passAction]
            ELSE [c |-> c1, notify |-> FALSE]

\* ApplyOutcome with `failCount = 0` moved inside `if self.failState:`
ApplyOutcome_ResetOnRecovery(c, curFail, thisTime) ==
    IF Truthy(curFail)
    THEN LET c1 == [c EXCEPT !.failCount = c.failCount + 1]
         IN IF c1.failCount >= c1.threshold /\ curFail # c1.failState
            THEN [c |-> [c1 EXCEPT !.failState = curFail, !.lastFail = thisTime],
                  notify |-> c1.failAction]
            ELSE [c |-> c1, notify |-> FALSE]
    ELSE IF Truthy(c.failState)
         THEN [c |-> [c EXCEPT !.failCount = 0, !.failState = curFail,
                               !.lastPass = thisTime],
               notify |-> c.passAction]
         ELSE [c |-> c, notify |-> FALSE]

\* ApplyOutcome without `failCount = 0`
ApplyOutcome_NoReset(c, curFail, thisTime) ==
    IF Truthy(curFail)
    THEN LET c1 == [c EXCEPT !.failCount = c.failCount + 1]
         IN IF c1.failCount >= c1.threshold /\ curFail # c1.failState
            THEN [c |-> [c1 EXCEPT !.failState = curFail, !.lastFail = thisTime],
                  notify |-> c1.failAction]
            ELSE [c |-> c1, notify |-> FALSE]
    ELSE IF Truthy(c.failState)
         THEN [c |-> [c EXCEPT !.failState = curFail, !.lastPass = thisTime],
               notify |-> c.passAction]
         ELSE [c |-> c, notify |-> FALSE]

\* ApplyOutcome comparing fail states by truthiness, not by value
ApplyOutcome_Truthiness(c, curFail, thisTime) ==
    IF Truthy(curFail)
    THEN LET c1 == [c EXCEPT !.failCount = c.failCount + 1]
         IN IF c1.failCount >= c1.threshold /\ ~Truthy(c1.failState)
            THEN [c |-> [c1 EXCEPT !.failState = curFail, !.lastFail = thisTime],
                  notify |-> c1.failAction]
            ELSE [c |-> c1, notify |-> FALSE]
    ELSE LET c1 == [c EXCEPT !.failCount = 0]
         IN IF Truthy(c1.failState)
            THEN [c |-> [c1 EXCEPT !.failState = curFail, !.lastPass = thisTime],
                  notify |-> c1.passAction]
            ELSE [c |-> c1, notify |-> FALSE]

\* ApplyOutcome without `if self.passAction: self.notify()`
ApplyOutcome_QuietRecovery(c, curFail, thisTime) ==
    IF Truthy(curFail)
    THEN LET c1 == [c EXCEPT !.failCount = c.failCount + 1]
         IN IF c1.failCount >= c1.threshold /\ curFail # c1.failState
            THEN [c |-> [c1 EXCEPT !.failState = curFail, !.lastFail = thisTime],
                  notify |-> c1.failAction]
            ELSE [c |-> c1, notify |-> FALSE]
    ELSE LET c1 == [c EXCEPT !.failCount = 0]
         IN IF Truthy(c1.failState)
            THEN [c |-> [c1 EXCEPT !.failState = curFail, !.lastPass = thisTime],
                  notify |-> FALSE]
            ELSE [c |-> c1, notify |-> FALSE]

\* BaseCheck.update, from `if curFail:` to the end: the probe after the
\* outcome curFail of the retry loop, and whether notify() is called
ApplyOutcome(c, curFail, thisTime) ==
    IF Truthy(curFail)
    THEN LET c1 == [c EXCEPT !.failCount = c.failCount + 1]
         IN IF c1.failCount >= c1.threshold /\ curFail # c1.failState
            THEN [c |-> [c1 EXCEPT !.failState = curFail, !.lastFail = thisTime],
                  notify |-> c1.failAction]
            ELSE [c |-> c1, notify |-> FALSE]
    ELSE LET c1 == [c EXCEPT !.failCount = 0]
         IN IF Truthy(c1.failState)
            THEN [c |-> [c1 EXCEPT !.failState = curFail, !.lastPass = thisTime],
                  notify |-> c1.passAction]
            ELSE [c |-> c1, notify |-> FALSE]

\* sequenceCheck._runCheck, the sort of (priority, count, name): the keys of
\* self.checks by priority, ties in insertion order
SortedChecks(h, chk) ==
    LET n == Len(chk)
        prio(i) == h[chk[i].v].priority
        before(i, j) == prio(i) < prio(j) \/ (prio(i) = prio(j) /\ i < j)
        rank(i) == Cardinality({j \in 1..n : before(j, i)}) + 1
    IN [r \in 1..n |-> chk[CHOOSE i \in 1..n : rank(i) = r].k]

\* how often name's _runCheck has been called by this handler
Calls(st, name) == Cardinality({i \in 1..Len(st.ran) : st.ran[i] = name})

\* httpsCheck._runCheck: one request; env[name] says how the service
\* answers during the handler: "up", "down", or "flaky" (the first request
\* fails, later ones succeed)
httpsCheck_runCheck(st, id, env) ==
    LET c == st.heap[id]
        k == Calls(st, c.name)
        e == env[c.name]
        fail == e = "down" \/ (e = "flaky" /\ k = 1)
        line == IF fail THEN c.name \o " ConnectionError" ELSE "(200)"
    IN [st |-> [st EXCEPT !.heap[id].log = Append(c.log, line)],
        ret |-> PyBool(fail)]

\* remoteCheck._runCheck: the reported state, or a failure when the last
\* report is older than options.timeout
remoteCheck_runCheck(st, id, thisTime) ==
    LET c == st.heap[id]
        timeout == c.options.timeout
        et == thisTime - c.lastUpdate
    IN IF timeout # 0 /\ c.lastUpdate # 0
       THEN IF et > timeout
            THEN [st |-> [st EXCEPT !.heap[id].log =
                            Append(c.log, "Timeout waiting for update " \o ToString(et) \o " sec")],
                  ret |-> PyBool(TRUE)]
            ELSE [st |-> IF c.oldLog # <<>>
                         THEN [st EXCEPT !.heap[id].log = c.oldLog] ELSE st,
                  ret |-> c.failState]
       ELSE [st |-> st, ret |-> c.failState]

RECURSIVE BaseCheck_update(_, _, _, _, _)
RECURSIVE RetryLoop(_, _, _, _, _, _)
RECURSIVE SeqLoop(_, _, _, _, _, _, _, _)

\* sequenceCheck._runCheck: sort, update each sub-probe in order, join
sequenceCheck_runCheck(st, id, env, thisTime, depth) ==
    SeqLoop(st, id, SortedChecks(st.heap, st.heap[id].checks), 1, {},
            env, thisTime, depth)

\* self._runCheck(): dispatch on the object's class
runCheck(st, id, env, thisTime, depth) ==
    LET c == st.heap[id]
        st1 == [st EXCEPT !.ran = Append(st.ran, c.name)]
    IN CASE c.checkType = "sequence" -> sequenceCheck_runCheck(st1, id, env, thisTime, depth)
         [] c.checkType = "remote" -> remoteCheck_runCheck(st1, id, thisTime)
         [] OTHER -> httpsCheck_runCheck(st1, id, env)

\* sequenceCheck._runCheck, the body of `for name in sortedChecks` once
\* c.update() has returned r: extend the log, collect the name when the
\* update returned truthy
SeqNext(r, id, names, i, failChecks, env, thisTime, depth) ==
    LET c == r.st.heap[DictGet(r.st.heap[id].checks, names[i])]
        cFail == Truthy(r.ret)
        head == c.name \o " (" \o c.checkType \o "): "
        log == r.st.heap[id].log
        log1 == IF cFail THEN (Append(log, head \o "FAIL") \o c.log) \o <<"">>
                ELSE Append(log, head \o "PASS")
    IN IF r.st.exc # "" THEN [st |-> r.st, ret |-> PyNone]
       ELSE SeqLoop([r.st EXCEPT !.heap[id].log = log1], id, names, i + 1,
                    IF cFail THEN failChecks \cup {c.name} ELSE failChecks,
                    env, thisTime, depth)

\* sequenceCheck._runCheck, `for name in sortedChecks`, and after the loop
\* the names of sortedChecks that are in failChecks, comma-joined
SeqLoop(st, id, names, i, failChecks, env, thisTime, depth) ==
    IF i > Len(names)
    THEN [st |-> st,
          ret |-> PyStr(Join(SelectSeq(names, LAMBDA n : n \in failChecks)))]
    ELSE SeqNext(BaseCheck_update(st, DictGet(st.heap[id].checks, names[i]),
                                  env, thisTime, depth - 1),
                 id, names, i, failChecks, env, thisTime, depth)

\* RetryNext without `if not curFail: break`
RetryNext_NoBreak(r, id, count, env, thisTime, depth) ==
    IF r.st.exc # "" \/ count + 1 >= r.st.heap[id].retries
    THEN r
    ELSE RetryLoop(r.st, id, count + 1, env, thisTime, depth)

\* BaseCheck.update, `while count < self.retries` once self._runCheck()
\* has returned r: stop at the first passing outcome
RetryNext(r, id, count, env, thisTime, depth) ==
    IF r.st.exc # "" \/ ~Truthy(r.ret) \/ count + 1 >= r.st.heap[id].retries
    THEN r
    ELSE RetryLoop(r.st, id, count + 1, env, thisTime, depth)

\* BaseCheck.update, the retry loop: the result is the last outcome
RetryLoop(st, id, count, env, thisTime, depth) ==
    RetryNext(runCheck(st, id, env, thisTime, depth), id, count, env, thisTime, depth)

\* Finish calling notify() before failState and the stamp are assigned
Finish_NotifyFirst(r, t, id) ==
    LET st1 == IF t.notify THEN notify(r.st, id) ELSE r.st
        st2 == [st1 EXCEPT !.heap[id] = t.c,
                           !.outs = Append(st1.outs, [id |-> id, cur |-> r.ret])]
    IN IF r.st.exc # "" THEN [st |-> r.st, ret |-> PyNone]
       ELSE [st |-> st2, ret |-> t.c.failState]

\* BaseCheck.update after the retry loop returned r with transition t:
\* store the probe, call notify() when the transition asks for it, and
\* return failState
Finish(r, t, id) ==
    LET st2 == [r.st EXCEPT !.heap[id] = t.c,
                            !.outs = Append(r.st.outs, [id |-> id, cur |-> r.ret])]
    IN IF r.st.exc # "" THEN [st |-> r.st, ret |-> PyNone]
       ELSE IF t.notify
       THEN [st |-> notify(st2, id),
             ret |-> IF notify(st2, id).exc # "" THEN PyNone ELSE t.c.failState]
       ELSE [st |-> st2, ret |-> t.c.failState]

\* BaseCheck.update from `for d in self.depends` on
Outcome(r, id, thisTime) ==
    Finish(r, ApplyOutcome(r.st.heap[id], r.ret, thisTime), id)

\* BaseCheck.update: [st, ret], ret the value update() returns
BaseCheck_update(st, id, env, thisTime, depth) ==
    LET c1 == [st.heap[id] EXCEPT !.lastCheck = thisTime, !.softFail = PyNone]
        d == FirstFailDep([st.heap EXCEPT ![id] = c1], c1.depends)
    IN IF depth = 0
       THEN [st |-> [st EXCEPT !.exc = "RecursionError"], ret |-> PyNone]
       ELSE IF d # 0
       THEN [st |-> [st EXCEPT !.heap[id] = SoftFail(c1, c1.depends[d].k)],
             ret |-> PyBool(TRUE)]
       ELSE Outcome(RetryLoop([st EXCEPT !.heap[id] = [c1 EXCEPT !.oldLog = c1.log,
                                                                !.log = <<>>]],
                              id, 0, env, thisTime, depth),
                    id, thisTime)

\* remoteCheck.remoteUpdate without `data['failCount'] >= data['threshold']`
remoteCheck_remoteUpdate_NoThreshold(st, id, checkType, data, now) ==
    LET c == st.heap[id]
        doNotify ==
            IF Truthy(data.failState)
            THEN data.failState # c.failState /\ c.failAction
            ELSE Truthy(c.failState) /\ c.passAction
        lastUpdate == IF data.lastCheck # 0 THEN data.lastCheck ELSE now
        c1 == [c EXCEPT !.subType = checkType,
                        !.failState = data.failState,
                        !.lastUpdate = lastUpdate,
                        !.failCount = data.failCount,
                        !.threshold = data.threshold,
                        !.log = data.log,
                        !.softFail = data.softFail,
                        !.lastCheck = data.lastCheck,
                        !.lastFail = data.lastFail,
                        !.lastPass = data.lastPass]
        st1 == [st EXCEPT !.heap[id] = c1]
    IN IF doNotify THEN notify(st1, id) ELSE st1

\* remoteCheck.remoteUpdate: data is the remote site's report
remoteCheck_remoteUpdate(st, id, checkType, data, now) ==
    LET c == st.heap[id]
        doNotify ==
            IF Truthy(data.failState)
            THEN data.failCount >= data.threshold /\ data.failState # c.failState
                 /\ c.failAction
            ELSE Truthy(c.failState) /\ c.passAction
        \* data['lastCheck'] is kept when it parses as a date
        lastUpdate == IF data.lastCheck # 0 THEN data.lastCheck ELSE now
        c1 == [c EXCEPT !.subType = checkType,
                        !.failState = data.failState,
                        !.lastUpdate = lastUpdate,
                        !.failCount = data.failCount,
                        !.threshold = data.threshold,
                        !.log = data.log,
                        !.softFail = data.softFail,
                        !.lastCheck = data.lastCheck,
                        !.lastFail = data.lastFail,
                        !.lastPass = data.lastPass]
        st1 == [st EXCEPT !.heap[id] = c1]
    IN IF doNotify THEN notify(st1, id) ELSE st1

\* --------------------------------------------------------- the scheduler
\* scheduler.add_job(callback, trigType, id=name, **trigOpts): the trigger
\* is built first (bad options raise); once the scheduler runs, an id
\* already in the job table raises ConflictingIdError
add_job(site, name, id, trigger) ==
    IF ~trigger.ok THEN [site EXCEPT !.exc = "ValueError"]
    ELSE IF site.scheduler = "running" /\ DictHas(site.jobs, name)
    THEN [site EXCEPT !.exc = "ConflictingIdError"]
    ELSE [site EXCEPT !.jobs = DictSet(site.jobs, name, id)]

\* ------------------------------------------------------ site operations
\* site = [heap, checks, actions, jobs, scheduler, exc]

\* `for d in config['depends']: if d in site.checks: add_depend(...)`
RECURSIVE AddDepends(_, _, _, _, _)
AddDepends(h, c, selfId, names, siteChecks) ==
    IF names = <<>> THEN c
    ELSE LET d == Head(names)
             c1 == IF DictHas(siteChecks, d)
                   THEN add_depend(h, c, selfId, DictGet(siteChecks, d)) ELSE c
         IN AddDepends(h, c1, selfId, Tail(names), siteChecks)

\* `for s in options['checks']: if s in site.checks: add_check(...)`
RECURSIVE AddChecks(_, _, _, _, _)
AddChecks(h, c, selfId, names, siteChecks) ==
    IF names = <<>> THEN c
    ELSE LET d == Head(names)
             c1 == IF DictHas(siteChecks, d)
                   THEN add_check(h, c, selfId, DictGet(siteChecks, d)) ELSE c
         IN AddChecks(h, c1, selfId, Tail(names), siteChecks)

\* loadSite, `# load checks`, one entry, r what loadCheck returned: attach
\* the actions and register the probe.  An unknown type leaves
\* newCheck = None, and the first use of newCheck raises.
Register(site, name, cfg, r) ==
    IF ~r.ok THEN [site EXCEPT !.exc = "AttributeError"]
    ELSE [site EXCEPT !.heap = Append(site.heap,
                                      AddActions(r.c, cfg.actions, site.actions)),
                      !.checks = DictSet(site.checks, name, Len(site.heap) + 1)]

\* loadSite, `# load checks`
RECURSIVE LoadChecks(_, _, _)
LoadChecks(site, entries, i) ==
    IF i > Len(entries) \/ site.exc # "" THEN site
    ELSE LoadChecks(Register(site, entries[i].name, entries[i].cfg,
                             loadCheck(entries[i].name, entries[i].cfg)),
                    entries, i + 1)

\* the configuration entry of a name
CfgOf(entries, name) ==
    entries[CHOOSE i \in 1..Len(entries) : entries[i].name = name].cfg

\* `if checkType == 'sequence'`: the sub-probes named in options['checks']
AddSeqChecks(h, c, selfId, siteChecks) ==
    IF c.checkType = "sequence"
    THEN AddChecks(h, c, selfId, c.options.checks, siteChecks)
    ELSE c

\* loadSite, the trigger of one probe: a job for an interval or cron
\* trigger, and any other trigger is dropped
Schedule(site, name, id) ==
    IF site.heap[id].trigger.kind \in {"interval", "cron"}
    THEN add_job(site, name, id, site.heap[id].trigger)
    ELSE [site EXCEPT !.heap[id].trigger = NoTrigger]

\* loadSite, `# patch the check dependencies, sequences and triggers`
RECURSIVE PatchChecks(_, _, _)
PatchChecks(site, entries, i) ==
    LET name == site.checks[i].k
        id == site.checks[i].v
    IN IF i > Len(site.checks) \/ site.exc # "" THEN site
       ELSE PatchChecks(
                Schedule([site EXCEPT !.heap[id] =
                            AddSeqChecks(site.heap,
                                AddDepends(site.heap, site.heap[id], id,
                                           CfgOf(entries, name).depends, site.checks),
                                id, site.checks)],
                         name, id),
                entries, i + 1)

\* loadSite, the end: an exception anywhere skips `site.scheduler = scheduler`
\* and the jobs are lost with the local scheduler
Started(site) ==
    IF site.exc # "" THEN [site EXCEPT !.jobs = <<>>]
    ELSE [site EXCEPT !.scheduler = "running"]

\* loadSite: the site after loading doc = [actions, checks]
loadSite(doc) ==
    Started(PatchChecks(LoadChecks([heap |-> <<>>, checks |-> <<>>,
                                    actions |-> doc.actions, jobs |-> <<>>,
                                    scheduler |-> "none", exc |-> ""],
                                   doc.checks, 1),
                        doc.checks, 1))

\* ------------------------------------------- configuration documents
IntervalTrigger == [kind |-> "interval", ok |-> TRUE]

\* the data a site saved while the probe was passing
PassData(type) ==
    [has |-> TRUE, failState |-> IF type = "sequence" THEN PyStr("") ELSE PyBool(FALSE),
     failCount |-> 0, threshold |-> -1, lastFail |-> 0, lastPass |-> 0,
     log |-> <<>>]

Cfg(type, threshold, retries, priority, flags, depends, options, trigger, loaded) ==
    [type |-> type, threshold |-> threshold, retries |-> retries,
     priority |-> priority, failAction |-> flags[1], passAction |-> flags[2],
     actions |-> <<"email", "sms">>, depends |-> depends, options |-> options,
     trigger |-> trigger, data |-> IF loaded THEN PassData(type) ELSE NoData]

\* D <- X -> Y, and the sequence S of Y and X (X sorts first, by priority)
DocSequence(t, r, flags, loaded) ==
    [actions |-> {"email", "sms"},
     checks |-> <<
        [name |-> "D", cfg |-> Cfg("https", 1, 1, 0, <<TRUE, TRUE>>, <<>>,
                                   NoOptions, IntervalTrigger, loaded)],
        [name |-> "Y", cfg |-> Cfg("https", 1, 1, 1, <<TRUE, TRUE>>, <<>>,
                                   NoOptions, NoTrigger, loaded)],
        [name |-> "X", cfg |-> Cfg("https", t, r, 0, flags, <<"D", "Y">>,
                                   NoOptions, NoTrigger, loaded)],
        [name |-> "S", cfg |-> Cfg("sequence", t, r, 0, flags, <<>>,
                                   [checks |-> <<"Y", "X">>, timeout |-> 0],
                                   IntervalTrigger, loaded)] >>]

\* a remote probe R with a staleness timeout
DocRemote(flags, loaded) ==
    [actions |-> {"email", "sms"},
     checks |-> <<
        [name |-> "R", cfg |-> Cfg("remote", 1, 1, 0, flags, <<>>,
                                   [checks |-> <<>>, timeout |-> 1],
                                   IntervalTrigger, loaded)] >>]

\* a remote probe R without options.timeout
DocRemoteNoTimeout(flags) ==
    [DocRemote(flags, TRUE) EXCEPT !.checks[1].cfg.options.timeout = 0]

\* a probe F created with threshold 2 and no runtime data
DocFresh ==
    [actions |-> {"email", "sms"},
     checks |-> <<
        [name |-> "F", cfg |-> Cfg("https", 2, 1, 0, <<TRUE, TRUE>>, <<>>,
                                   NoOptions, IntervalTrigger, FALSE)] >>]

\* <<failAction, passAction>> of the probes under study
Flags == {<<TRUE, FALSE>>, <<FALSE, TRUE>>}

Documents ==
    {DocSequence(t, r, flags, loaded) :
        t \in {1, MaxThreshold}, r \in {1, MaxRetries},
        flags \in Flags, loaded \in BOOLEAN}
    \cup {DocRemote(flags, loaded) : flags \in Flags, loaded \in BOOLEAN}
    \cup {DocRemoteNoTimeout(flags) : flags \in Flags}
    \cup {DocFresh}

\* ------------------------------------------------------------ behaviour
\* no addCheck has run
NoPrior == [has |-> FALSE]

\* the trigger editor is closed
NoCodec == [step |-> "closed"]

Init ==
    \E doc \in Documents :
        \E site \in {loadSite(doc)} :
           /\ heap = site.heap
           /\ pre = site.heap
           /\ checks = site.checks
           /\ actions = site.actions
           /\ jobs = site.jobs
           /\ scheduler = site.scheduler
           /\ clock = 0
           /\ sent = <<>>
           /\ ran = <<>>
           /\ outs = <<>>
           /\ last = [op |-> "loadSite", id |-> 0, ret |-> PyNone]
           /\ prior = NoPrior
           /\ codec = NoCodec
           /\ ExtIdle

\* the https probes a handler started at object id can reach
RECURSIVE Reach(_, _, _)
Reach(h, id, depth) ==
    IF depth = 0 THEN {}
    ELSE IF h[id].checkType = "sequence"
    THEN UNION {Reach(h, h[id].checks[i].v, depth - 1) : i \in 1..Len(h[id].checks)}
    ELSE IF h[id].checkType = "https" THEN {h[id].name} ELSE {}

\* how the services answer during one handler; a flaky service differs
\* from one that is down only when some probe retries
Env(h, names) ==
    [names -> IF \E i \in 1..Len(h) : h[i].retries > 1
              THEN {"up", "flaky", "down"} ELSE {"up", "down"}]

\* a handler starts with nothing sent, run or finished
Fresh(h) ==
    [heap |-> h, sent |-> <<>>, ran |-> <<>>, outs |-> <<>>, exc |-> "", raises |-> {}]

\* the handler body shared by a scheduled job and runCheck
DoUpdate(op, id) ==
    /\ clock < MaxClock
    /\ \E env \in Env(heap, Reach(heap, id, MaxDepth)) :
        \E r \in {BaseCheck_update(Fresh(heap), id, env, clock + 1, MaxDepth)} :
           /\ heap' = r.st.heap
           /\ pre' = heap
           /\ sent' = r.st.sent
           /\ ran' = r.st.ran
           /\ outs' = r.st.outs
           /\ last' = [op |-> op, id |-> id, ret |-> r.ret, exc |-> r.st.exc]
    /\ clock' = clock + 1
    /\ UNCHANGED <<checks, actions, jobs, scheduler, prior, codec>>
    /\ UNCHANGED extVars

\* the scheduler fires the job registered under a name
JobFires ==
    /\ scheduler = "running"
    /\ \E i \in 1..Len(jobs) : DoUpdate("job", jobs[i].v)

\* FletchSite.runCheck(name), for the probes no job runs
RunCheck ==
    \E i \in 1..Len(checks) :
        /\ ~DictHas(jobs, checks[i].k)
        /\ DoUpdate("runCheck", checks[i].v)

\* the reports a remote site can send
RemoteData ==
    [failState : {PyBool(TRUE), PyBool(FALSE)}, failCount : {0, MaxThreshold},
     threshold : {1, MaxThreshold}, log : {<<"remote log">>}, softFail : {PyNone},
     lastCheck : {0, clock + 1}, lastFail : {0}, lastPass : {0}]

\* a report arrives for a remote probe
RemoteUpdate ==
    /\ clock < MaxClock
    /\ \E i \in 1..Len(checks), data \in RemoteData :
        \E st1 \in {remoteCheck_remoteUpdate(Fresh(heap), checks[i].v, "https",
                                             data, clock + 1)} :
           /\ heap[checks[i].v].checkType = "remote"
           /\ heap' = st1.heap
           /\ pre' = heap
           /\ sent' = st1.sent
           /\ ran' = <<>>
           /\ outs' = <<>>
           /\ last' = [op |-> "remoteUpdate", id |-> checks[i].v, ret |-> PyNone,
                        data |-> data]
    /\ clock' = clock + 1
    /\ UNCHANGED <<checks, actions, jobs, scheduler, prior, codec>>
    /\ UNCHANGED extVars

\* a time field as the Python value it holds: None until it is stamped,
\* then the formatted time
PyTime(t) == IF t = 0 THEN PyNone ELSE PyStr(ToString(t))

\* `x if x else ''`
OrEmpty(v) == IF Truthy(v) THEN v ELSE PyStr("")

\* getStatus, status['checks'][checkName]
StatusEntry(c) ==
    [checkType |-> c.checkType, failState |-> c.failState, trigger |-> c.trigger,
     softFail |-> OrEmpty(c.softFail),
     lastFail |-> OrEmpty(PyTime(c.lastFail)),
     lastPass |-> OrEmpty(PyTime(c.lastPass))]

\* getStatus, '%d check%s in fail state'
StatusInfo(failCount) ==
    IF failCount > 0
    THEN PyStr(ToString(failCount) \o " check"
                \o (IF failCount > 1 THEN "s" ELSE "") \o " in fail state")
    ELSE PyNone

\* getStatus iterating self.checks instead of self.sortedChecks()
getStatus_Unsorted(h, chk) ==
    [fail |-> \E i \in 1..Len(chk) : Truthy(h[chk[i].v].failState),
     info |-> StatusInfo(Cardinality({i \in 1..Len(chk) : Truthy(h[chk[i].v].failState)})),
     checks |-> [r \in 1..Len(chk) |->
                    [k |-> chk[r].k, v |-> StatusEntry(h[chk[r].v])]]]

\* FletchSite.getStatus: sortedChecks() sorts (priority, count, name) as
\* sequenceCheck._runCheck does
getStatus(h, chk) ==
    [fail |-> \E i \in 1..Len(chk) : Truthy(h[chk[i].v].failState),
     info |-> StatusInfo(Cardinality({i \in 1..Len(chk) : Truthy(h[chk[i].v].failState)})),
     checks |-> [r \in 1..Len(chk) |->
                    [k |-> SortedChecks(h, chk)[r],
                     v |-> StatusEntry(h[DictGet(chk, SortedChecks(h, chk)[r])])]]]

\* the user interface asks for the site's status
GetStatus ==
    /\ heap' = heap
    /\ pre' = heap
    /\ sent' = <<>>
    /\ ran' = <<>>
    /\ outs' = <<>>
    /\ last' = [op |-> "getStatus", id |-> 0, ret |-> getStatus(heap, checks)]
    /\ UNCHANGED <<clock, checks, actions, jobs, scheduler, prior, codec>>
    /\ UNCHANGED extVars

Next == JobFires \/ RunCheck \/ RemoteUpdate \/ GetStatus

Spec == Init /\ [][Next]_vars

\* ------------------------------------------------- the last handler
\* the probes registered in the site
SiteIds == {checks[i].v : i \in 1..Len(checks)}

\* the last handler was an update() entered from the scheduler or runCheck
IsUpdate == last.op \in {"job", "runCheck"}

\* ... and its retry loop ran (it was not soft-failed)
TopRan == IsUpdate /\ outs # <<>>

\* the outcome of that retry loop (curFail)
TopCur == outs[Len(outs)].cur

\* the trigger() calls the last handler made for the probe named n
SentFor(n) == SelectSeq(sent, LAMBDA e : e.check = n)

\* notify() ran once for probe c: each attached action, in order
Dispatched(c) == [i \in 1..Len(SentFor(c.name)) |-> SentFor(c.name)[i].action] = c.actions

\* ----------------------------------------------------------------- C1
\* C1: an update that ends failing while the probe is in the pass state and
\* failCount, after counting this failure, is still below the threshold
\* leaves failState unchanged and calls no action of the probe.
C1_BelowThresholdQuiet ==
    (/\ TopRan
     /\ Truthy(TopCur)
     /\ ~Truthy(pre[last.id].failState)
     /\ pre[last.id].failCount + 1 < pre[last.id].threshold)
    => /\ heap[last.id].failState = pre[last.id].failState
       /\ heap[last.id].failCount = pre[last.id].failCount + 1
       /\ SentFor(heap[last.id].name) = <<>>

C1_Witness ==
    /\ TopRan
    /\ Truthy(TopCur)
    /\ ~Truthy(pre[last.id].failState)
    /\ pre[last.id].failCount = 0
    /\ pre[last.id].threshold > 1
    /\ heap[last.id].failCount = 1

\* ----------------------------------------------------------------- C2
\* C2 as stated: a failing run that starts in the pass state changes
\* failState and stamps lastFail on the update where failCount reaches the
\* threshold, and no later failing update of the run changes either.
C2_Original ==
    (TopRan /\ Truthy(TopCur)) =>
        LET b == pre[last.id]
            a == heap[last.id]
        IN /\ (~Truthy(b.failState) /\ b.failCount + 1 < b.threshold)
                => (a.failState = b.failState /\ a.lastFail = b.lastFail)
           /\ (~Truthy(b.failState) /\ b.failCount + 1 = b.threshold)
                => (a.failState = TopCur /\ a.lastFail = clock)
           /\ (Truthy(b.failState) /\ b.lastFail # 0)
                => (a.failState = b.failState /\ a.lastFail = b.lastFail)

\* C2 (amended): from the pass state, failState changes and lastFail is
\* stamped on exactly the update where failCount reaches the threshold;
\* a later failing update leaves both unchanged when its outcome equals
\* failState, and sets failState and stamps lastFail again when its outcome
\* is a different failing value.
C2_TransitionAtThreshold ==
    (TopRan /\ Truthy(TopCur)) =>
        LET b == pre[last.id]
            a == heap[last.id]
        IN /\ (~Truthy(b.failState) /\ b.failCount + 1 < b.threshold)
                => (a.failState = b.failState /\ a.lastFail = b.lastFail)
           /\ (~Truthy(b.failState) /\ b.failCount + 1 = b.threshold)
                => (a.failState = TopCur /\ a.lastFail = clock)
           /\ (Truthy(b.failState) /\ b.lastFail # 0 /\ TopCur = b.failState)
                => (a.failState = b.failState /\ a.lastFail = b.lastFail)
           /\ (Truthy(b.failState) /\ b.lastFail # 0 /\ TopCur # b.failState)
                => (a.failState = TopCur /\ a.lastFail = clock)

\* a probe with threshold > 1 failing once more after its transition
C2_Witness ==
    /\ TopRan
    /\ Truthy(TopCur)
    /\ pre[last.id].threshold > 1
    /\ pre[last.id].failCount = pre[last.id].threshold
    /\ pre[last.id].lastFail = clock - 1
    /\ heap[last.id].lastFail = clock - 1
    /\ heap[last.id].failState = TopCur

\* ----------------------------------------------------------------- C3
\* C3: an update that is not soft-failed and ends passing leaves
\* failCount = 0.
C3_PassResetsFailCount ==
    (TopRan /\ ~Truthy(TopCur)) => heap[last.id].failCount = 0

C3_Witness ==
    /\ TopRan
    /\ ~Truthy(TopCur)
    /\ pre[last.id].failCount > 0
    /\ ~Truthy(pre[last.id].failState)
    /\ heap[last.id].failCount = 0

\* ----------------------------------------------------------------- C4
\* some dependency of probe c fails in heap h
DepFailing(h, c) == \E i \in 1..Len(c.depends) : Truthy(h[c.depends[i].v].failState)

\* the name of the first failing dependency, in insertion order
FirstFailingName(h, c) ==
    LET i == CHOOSE k \in 1..Len(c.depends) :
                /\ Truthy(h[c.depends[k].v].failState)
                /\ \A j \in 1..(k - 1) : ~Truthy(h[c.depends[j].v].failState)
    IN c.depends[i].k

\* C4: an update that finds a dependency failing runs no check, leaves
\* failState, failCount, lastPass and lastFail alone, calls no action, and
\* sets softFail and log to name the first failing dependency.
C4_SoftFailFrame ==
    (IsUpdate /\ DepFailing(pre, pre[last.id])) =>
        LET b == pre[last.id]
            a == heap[last.id]
            d == FirstFailingName(pre, b)
        IN /\ ran = <<>>
           /\ sent = <<>>
           /\ a.failState = b.failState
           /\ a.failCount = b.failCount
           /\ a.lastPass = b.lastPass
           /\ a.lastFail = b.lastFail
           /\ a.softFail = PyStr(d)
           /\ a.log = <<"SOFTFAIL (depends=" \o d \o ")">>

\* both dependencies of X fail: the first one in insertion order is named
C4_Witness ==
    /\ IsUpdate
    /\ Len(pre[last.id].depends) = 2
    /\ \A i \in 1..2 : Truthy(pre[pre[last.id].depends[i].v].failState)
    /\ heap[last.id].softFail = PyStr(pre[last.id].depends[1].k)
    /\ ~Truthy(heap[last.id].failState)

Before(h, c, i, j) ==
    \/ h[c.checks[i].v].priority < h[c.checks[j].v].priority
    \/ (h[c.checks[i].v].priority = h[c.checks[j].v].priority /\ i < j)

\* the positions F of c.checks, by (priority ascending, insertion ascending)
Ordered(h, c, F) ==
    CHOOSE q \in [1..Cardinality(F) -> F] :
        \A a, b \in 1..Cardinality(F) : a < b => Before(h, c, q[a], q[b])

\* the names at the positions F of c.checks, in that order, comma-joined
CsvOf(h, c, F) ==
    Join([a \in 1..Cardinality(F) |-> c.checks[Ordered(h, c, F)[a]].k])

\* C6 as stated: after a sequence probe with threshold 1 ran, its failState
\* is the comma-joined names, by (priority, insertion order), of exactly the
\* sub-probes whose own failState is failing, soft-failed ones included.
C6_Original ==
    (TopRan /\ heap[last.id].checkType = "sequence" /\ heap[last.id].threshold = 1) =>
        LET S == heap[last.id]
            F == {i \in 1..Len(S.checks) : Truthy(heap[S.checks[i].v].failState)}
        IN S.failState = PyStr(CsvOf(heap, S, F))

\* ----------------------------------------------------------------- C7
\* C7: when a sequence probe whose failState is a non-empty CSV ends an
\* update with a different CSV, failState becomes the new CSV; a non-empty
\* one stamps lastFail and calls the actions iff failAction, the empty one
\* stamps lastPass and calls the actions iff passAction.
C7_SequenceRetransition ==
    (/\ TopRan
     /\ pre[last.id].checkType = "sequence"
     /\ pre[last.id].failState.ty = "str"
     /\ Truthy(pre[last.id].failState)
     /\ TopCur # pre[last.id].failState)
    => LET b == pre[last.id]
           a == heap[last.id]
       IN /\ a.failState = TopCur
          /\ TopCur.ty = "str"
          /\ Truthy(TopCur) =>
                /\ a.lastFail = clock
                /\ a.lastPass = b.lastPass
                /\ IF a.failAction THEN Dispatched(a) ELSE SentFor(a.name) = <<>>
          /\ ~Truthy(TopCur) =>
                /\ a.failState = PyStr("")
                /\ a.lastPass = clock
                /\ a.lastFail = b.lastFail
                /\ IF a.passAction THEN Dispatched(a) ELSE SentFor(a.name) = <<>>

\* a failing sequence gains a failing sub-probe and calls its actions
C7_Witness ==
    /\ TopRan
    /\ pre[last.id].checkType = "sequence"
    /\ pre[last.id].failState = PyStr("Y")
    /\ heap[last.id].failState = PyStr("X,Y")
    /\ heap[last.id].lastFail = clock
    /\ SentFor(heap[last.id].name) # <<>>

\* ------------------------------------------- trigger text (util.py)
\* A text is modelled by its blank-separated words (' '.join on one side,
\* str.split on the other); a trigger is [kind, map], map a function from
\* the keys present to values; a value is an int or a str, a str being
\* held as its words.

\* largest integer a trigger of Triggers holds
MaxInt == 2

INTTRIGKEYS == {"weeks", "days", "hours", "minutes", "seconds", "jitter"}

INTERVALKEYS ==
    << [k |-> "weeks", v |-> "week"], [k |-> "days", v |-> "day"],
       [k |-> "hours", v |-> "hr"], [k |-> "minutes", v |-> "min"],
       [k |-> "seconds", v |-> "sec"], [k |-> "start_date", v |-> "start"],
       [k |-> "end_date", v |-> "end"], [k |-> "timezone", v |-> "z"],
       [k |-> "jitter", v |-> "delay"] >>

CRONKEYS ==
    << [k |-> "year", v |-> "year"], [k |-> "month", v |-> "month"],
       [k |-> "day", v |-> "day"], [k |-> "week", v |-> "week"],
       [k |-> "day_of_week", v |-> "weekday"], [k |-> "hour", v |-> "hr"],
       [k |-> "minute", v |-> "min"], [k |-> "second", v |-> "sec"],
       [k |-> "start_date", v |-> "start"], [k |-> "end_date", v |-> "end"],
       [k |-> "timezone", v |-> "z"], [k |-> "jitter", v |-> "delay"] >>

KeysOf(kind) == IF kind = "interval" THEN INTERVALKEYS ELSE CRONKEYS

IntVal(n) == [ty |-> "int", n |-> n, w |-> <<>>]

StrVal(w) == [ty |-> "str", n |-> 0, w |-> w]

\* str(value), as words
Str(v) == IF v.ty = "int" THEN <<ToString(v.n)>> ELSE v.w

\* str.lower(), on the words the triggers of Triggers are written with
Lower(w) ==
    CASE w = "UTC" -> "utc"
      [] w = "Australia/Adelaide" -> "australia/adelaide"
      [] w = "MON-FRI" -> "mon-fri"
      [] OTHER -> w

\* int(val): ok is FALSE where Python raises ValueError
ParseInt(words) ==
    IF Len(words) = 1 /\ \E n \in 0..MaxInt : ToString(n) = words[1]
    THEN [ok |-> TRUE, n |-> CHOOSE n \in 0..MaxInt : ToString(n) = words[1]]
    ELSE [ok |-> FALSE, n |-> 0]

\* trigger2Text, the loop `for key in _INTERVALKEYS` / `for key in _CRONKEYS`
RECURSIVE EmitKeys(_, _, _)
EmitKeys(keys, map, i) ==
    IF i > Len(keys) THEN <<>>
    ELSE (IF keys[i].k \in DOMAIN map
          THEN Str(map[keys[i].k]) \o <<keys[i].v>> ELSE <<>>)
         \o EmitKeys(keys, map, i + 1)

trigger2Text(trigger) ==
    IF trigger.kind \in {"interval", "cron"}
    THEN <<trigger.kind>> \o EmitKeys(KeysOf(trigger.kind), trigger.map, 1)
    ELSE <<>>

\* text2Trigger's keyMap: every key and every unit name its key
KeyMapHas(kind, w) ==
    \E i \in 1..Len(KeysOf(kind)) : KeysOf(kind)[i].k = w \/ KeysOf(kind)[i].v = w

KeyMapGet(kind, w) ==
    LET keys == KeysOf(kind)
        hits == {i \in 1..Len(keys) : keys[i].k = w \/ keys[i].v = w}
    IN keys[CHOOSE i \in hits : \A j \in hits : i >= j].k

\* text2Trigger, `trigMap[key] = val` with the int() conversion before it
Store(key, words, trigMap) ==
    LET n == ParseInt(words)
        val == IF key \in INTTRIGKEYS THEN IntVal(n.n) ELSE StrVal(words)
    IN IF key \in INTTRIGKEYS /\ ~n.ok
       THEN [ok |-> FALSE, map |-> trigMap]
       ELSE [ok |-> TRUE,
             map |-> [x \in DOMAIN trigMap \cup {key} |->
                         IF x = key THEN val ELSE trigMap[x]]]

\* text2Trigger, `while tv:` and the `if nextVal:` after it
RECURSIVE Scan(_, _, _, _, _)
Scan(kind, tv, i, nextVal, trigMap) ==
    IF i > Len(tv)
    THEN IF nextVal # <<>>
         THEN Store(KeyMapGet(kind, "min"), nextVal, trigMap)
         ELSE [ok |-> TRUE, map |-> trigMap]
    ELSE IF KeyMapHas(kind, tv[i])
    THEN Scan(kind, tv, i + 1, nextVal, trigMap)
    ELSE IF i + 1 <= Len(tv) /\ KeyMapHas(kind, tv[i + 1])
    THEN LET r == Store(KeyMapGet(kind, tv[i + 1]), Append(nextVal, tv[i]), trigMap)
         IN IF r.ok THEN Scan(kind, tv, i + 2, <<>>, r.map) ELSE r
    ELSE Scan(kind, tv, i + 1, Append(nextVal, tv[i]), trigMap)

\* the scheduler's date parser
ValidDate(w) ==
    w \in {<<"2024-01-01">>, <<"2024-01-01", "12:00:00">>}

\* the scheduler's time zone lookup; whether a name in the wrong case is
\* found depends on the zone database in use
ValidZone(w, zones) ==
    \/ w \in {<<"UTC">>, <<"Australia/Adelaide">>}
    \/ (zones = "anycase" /\ w \in {<<"utc">>, <<"australia/adelaide">>})

\* the scheduler's cron field expressions
ValidExpr(key, v) ==
    \/ v.ty = "int"
    \/ /\ Len(v.w) = 1
       /\ \/ v.w[1] \in {"*", "*/2"}
          \/ ParseInt(v.w).ok
          \/ (key = "day_of_week" /\ Lower(v.w[1]) = "mon-fri")

\* IntervalTrigger(**trigMap) / CronTrigger(**trigMap) returns normally
Accepts(kind, map, zones) ==
    \A key \in DOMAIN map :
        CASE key \in {"start_date", "end_date"} ->
                map[key].ty = "str" /\ ValidDate(map[key].w)
          [] key = "timezone" -> map[key].ty = "str" /\ ValidZone(map[key].w, zones)
          [] key = "jitter" -> map[key].ty = "int"
          [] OTHER -> IF kind = "interval" THEN map[key].ty = "int"
                      ELSE ValidExpr(key, map[key])

text2Trigger(text, zones) ==
    IF text = <<>> THEN [ok |-> FALSE]
    ELSE LET tv == [i \in 1..Len(text) |-> Lower(text[i])]
             kind == IF tv[1] = "cron" THEN "cron" ELSE "interval"
             rest == IF tv[1] \in {"interval", "cron"} THEN Tail(tv) ELSE tv
             r == Scan(kind, rest, 1, <<>>, <<>>)
         IN IF r.ok /\ Accepts(kind, r.map, zones)
            THEN [ok |-> TRUE, t |-> [kind |-> kind, map |-> r.map]]
            ELSE [ok |-> FALSE]

\* a field that is not set
Absent == [ty |-> "absent", n |-> 0, w |-> <<>>]

\* the dict holding the fields of f that are set
Present(f) == [k \in {x \in DOMAIN f : f[x] # Absent} |-> f[k]]

Dates == {StrVal(<<"2024-01-01">>), StrVal(<<"2024-01-01", "12:00:00">>)}

Zones == {StrVal(<<"UTC">>), StrVal(<<"Australia/Adelaide">>)}

\* valid structured triggers over the documented fields
Triggers ==
    {[kind |-> "interval",
      map |-> Present([minutes |-> a, seconds |-> b, start_date |-> c,
                       timezone |-> d, jitter |-> e])] :
        a \in {Absent} \cup {IntVal(n) : n \in 1..MaxInt},
        b \in {Absent, IntVal(0)},
        c \in {Absent} \cup Dates,
        d \in {Absent} \cup Zones,
        e \in {Absent, IntVal(MaxInt)}}
    \cup
    {[kind |-> "cron",
      map |-> Present([day_of_week |-> a, hour |-> b, minute |-> c,
                       timezone |-> d, jitter |-> e])] :
        a \in {Absent, StrVal(<<"mon-fri">>), StrVal(<<"MON-FRI">>)},
        b \in {Absent, StrVal(<<"*/2">>)} \cup {IntVal(n) : n \in 1..MaxInt},
        c \in {Absent, StrVal(<<"0">>)},
        d \in {Absent} \cup Zones,
        e \in {Absent, IntVal(MaxInt)}}

\* the trigger editor opens; no site is loaded
CodecInit ==
    /\ heap = <<>>
    /\ pre = <<>>
    /\ checks = <<>>
    /\ actions = {}
    /\ jobs = <<>>
    /\ scheduler = "none"
    /\ clock = 0
    /\ sent = <<>>
    /\ ran = <<>>
    /\ outs = <<>>
    /\ last = [op |-> "none", id |-> 0, ret |-> PyNone]
    /\ prior = NoPrior
    /\ \E z \in {"exact", "anycase"} : codec = [step |-> "open", zones |-> z]
    /\ ExtIdle

\* a structured trigger is shown as text
Trigger2Text ==
    /\ codec.step = "open"
    /\ \E t \in Triggers :
        codec' = [step |-> "text", zones |-> codec.zones, t |-> t,
                  text |-> trigger2Text(t)]
    /\ UNCHANGED <<heap, pre, checks, actions, jobs, scheduler, clock, sent, ran,
                   outs, last, prior>>
    /\ UNCHANGED extVars

\* the text is read back
Text2Trigger ==
    /\ codec.step = "text"
    /\ codec' = [step |-> "parsed", zones |-> codec.zones, t |-> codec.t,
                 text |-> codec.text, back |-> text2Trigger(codec.text, codec.zones)]
    /\ UNCHANGED <<heap, pre, checks, actions, jobs, scheduler, clock, sent, ran,
                   outs, last, prior>>
    /\ UNCHANGED extVars

CodecNext == Trigger2Text \/ Text2Trigger

CodecSpec == CodecInit /\ [][CodecNext]_vars

\* ----------------------------------------------------------------- C8
\* C8 as stated: reading back the text of a valid structured trigger gives
\* the trigger itself: same kind, same fields, each value equal in value
\* and type.
C8_Original ==
    codec.step = "parsed" => (codec.back.ok /\ codec.back.t = codec.t)

\* ------------------------------------- editing a running site (util.py)
\* site operations (addCheck, deleteCheck) run in one behaviour
MaxOps == 2

\* addCheck, `# add check to site` and `# schedule check`: add_job is the
\* last step, after site.checks[name] has been assigned
AddBuilt(site, name, newId, c) ==
    LET s1 == [site EXCEPT !.heap = Append(site.heap, c),
                           !.checks = DictSet(site.checks, name, newId)]
    IN IF c.trigger.kind \in {"interval", "cron"}
       THEN add_job(s1, name, newId, c.trigger)
       ELSE s1

\* addCheck once loadCheck has returned r: None makes the first use of
\* newCheck raise AttributeError, before the site is touched
AddLoaded(site, name, config, r) ==
    IF ~r.ok THEN [site EXCEPT !.exc = "AttributeError"]
    ELSE AddBuilt(site, name, Len(site.heap) + 1,
             AddSeqChecks(site.heap,
                 AddDepends(site.heap,
                            AddActions(r.c, config.actions, site.actions),
                            Len(site.heap) + 1, config.depends, site.checks),
                 Len(site.heap) + 1, site.checks))

\* addCheck(site, name, config)
addCheck(site, name, config) ==
    AddLoaded(site, name, config, loadCheck(name, config))

\* list.remove(x) guarded by `x in list`: the first occurrence goes
RECURSIVE RemoveFirst(_, _)
RemoveFirst(s, x) ==
    IF s = <<>> THEN <<>>
    ELSE IF Head(s) = x THEN Tail(s)
    ELSE <<Head(s)>> \o RemoveFirst(Tail(s), x)

\* deleteCheck, the body of `for name in site.checks:` for one probe c
Scrub(c, check) ==
    LET c1 == del_depend(c, check)
        c2 == IF c1.checkType = "sequence" THEN del_check(c1, check) ELSE c1
    IN [c2 EXCEPT !.options.checks = RemoveFirst(c2.options.checks, check)]

\* deleteCheck without the un-schedule step
deleteCheck_KeepJob(site, check) ==
    LET left == DictDel(site.checks, check)
        ids == {left[i].v : i \in 1..Len(left)}
    IN IF DictHas(site.checks, check)
       THEN [site EXCEPT !.checks = left,
                         !.heap = [id \in 1..Len(site.heap) |->
                                      IF id \in ids THEN Scrub(site.heap[id], check)
                                      ELSE site.heap[id]]]
       ELSE site

\* deleteCheck(site, check)
deleteCheck(site, check) ==
    LET s1 == IF DictHas(site.jobs, check)
              THEN [site EXCEPT !.jobs = DictDel(site.jobs, check)] ELSE site
        left == DictDel(s1.checks, check)
        ids == {left[i].v : i \in 1..Len(left)}
    IN IF DictHas(s1.checks, check)
       THEN [s1 EXCEPT !.checks = left,
                       !.heap = [id \in 1..Len(s1.heap) |->
                                    IF id \in ids THEN Scrub(s1.heap[id], check)
                                    ELSE s1.heap[id]]]
       ELSE s1

\* BaseCheck.replace_depend: the re-added key goes last
replace_depend(h, c, selfId, name, otherId) ==
    IF DictHas(c.depends, name)
    THEN add_depend(h, del_depend(c, name), selfId, otherId)
    ELSE c

\* sequenceCheck.replace_check
replace_check(h, c, selfId, name, otherId) ==
    IF DictHas(c.checks, name)
    THEN add_check(h, del_check(c, name), selfId, otherId)
    ELSE c

\* `if oldName in cl: cl[cl.index(oldName)] = newName`: the first occurrence
RECURSIVE ReplaceFirst(_, _, _)
ReplaceFirst(s, x, y) ==
    IF s = <<>> THEN <<>>
    ELSE IF Head(s) = x THEN <<y>> \o Tail(s)
    ELSE <<Head(s)>> \o ReplaceFirst(Tail(s), x, y)

\* updateCheck, the options.checks part of the loop body
RepairOptions(c, oldName, newName) ==
    IF oldName # newName
    THEN [c EXCEPT !.options.checks = ReplaceFirst(c.options.checks, oldName, newName)]
    ELSE c

\* updateCheck, the sequence part of the loop body
RepairSequence(h, c, selfId, oldName, newId) ==
    IF c.checkType = "sequence"
    THEN replace_check(h, c, selfId, oldName, newId)
    ELSE c

\* updateCheck, the body of `for name in site.checks: if name != newName:`
\* for one probe c
Repair(h, c, selfId, oldName, newName, newId) ==
    RepairOptions(
        RepairSequence(h, replace_depend(h, c, selfId, oldName, newId),
                       selfId, oldName, newId),
        oldName, newName)

\* updateCheck, `# repair dependencies and sequences`, once addCheck has
\* returned site; an exception of addCheck propagates and skips the repair
RepairAll(site, oldName, newName) ==
    IF site.exc # "" THEN site
    ELSE [site EXCEPT !.heap =
            [id \in 1..Len(site.heap) |->
                IF \E i \in 1..Len(site.checks) :
                      site.checks[i].v = id /\ site.checks[i].k # newName
                THEN Repair(site.heap, site.heap[id], id, oldName, newName,
                            DictGet(site.checks, newName))
                ELSE site.heap[id]]]

\* updateCheck, `# un-schedule`
Unschedule(site, name) ==
    IF DictHas(site.jobs, name)
    THEN [site EXCEPT !.jobs = DictDel(site.jobs, name)] ELSE site

\* updateCheck from `oldCheck = site.checks[oldName]` on: a name the site
\* does not have raises KeyError
UpdateFrom(site, oldName, newName, config) ==
    IF ~DictHas(site.checks, oldName) THEN [site EXCEPT !.exc = "KeyError"]
    ELSE RepairAll(addCheck([site EXCEPT !.checks = DictDel(site.checks, oldName)],
                            newName, config),
                   oldName, newName)

\* updateCheck copying the replaced probe's state into config.data
updateCheck_KeepState(site, oldName, newName, config) ==
    UpdateFrom(Unschedule(site, oldName), oldName, newName,
               IF DictHas(site.checks, oldName)
               THEN [config EXCEPT !.data =
                        [has |-> TRUE,
                         failState |-> site.heap[DictGet(site.checks, oldName)].failState,
                         failCount |-> site.heap[DictGet(site.checks, oldName)].failCount,
                         threshold |-> -1,
                         lastFail |-> site.heap[DictGet(site.checks, oldName)].lastFail,
                         lastPass |-> site.heap[DictGet(site.checks, oldName)].lastPass,
                         log |-> site.heap[DictGet(site.checks, oldName)].log]]
               ELSE config)

\* updateCheck(site, oldName, newName, config)
updateCheck(site, oldName, newName, config) ==
    UpdateFrom(Unschedule(site, oldName), oldName, newName, config)

\* D <- X -> Y and the sequence S, whose options list Y, X and the names
\* of extra
DocSite(extra) ==
    [actions |-> {"email", "sms"},
     checks |-> <<
        [name |-> "D", cfg |-> Cfg("https", 1, 1, 0, <<TRUE, TRUE>>, <<>>,
                                   NoOptions, IntervalTrigger, TRUE)],
        [name |-> "Y", cfg |-> Cfg("https", 1, 1, 1, <<TRUE, TRUE>>, <<>>,
                                   NoOptions, NoTrigger, TRUE)],
        [name |-> "X", cfg |-> Cfg("https", 1, 1, 0, <<TRUE, TRUE>>, <<"D", "Y">>,
                                   NoOptions, NoTrigger, TRUE)],
        [name |-> "S", cfg |-> Cfg("sequence", 1, 1, 0, <<TRUE, TRUE>>, <<>>,
                                   [checks |-> extra \o <<"Y", "X">>, timeout |-> 0],
                                   IntervalTrigger, TRUE)] >>]

\* a document may list in a sequence a probe that it does not define
SiteDocuments == {DocSite(<<>>), DocSite(<<"N">>)}

\* a trigger whose options the scheduler rejects
BadTrigger == [kind |-> "interval", ok |-> FALSE]

\* the configurations the editor submits
EditConfigs ==
    {Cfg("https", 1, 1, 0, <<TRUE, TRUE>>, <<"Y">>, NoOptions, NoTrigger, FALSE),
     Cfg("https", 1, 1, 0, <<TRUE, TRUE>>, <<>>, NoOptions, IntervalTrigger, FALSE),
     Cfg("https", 1, 1, 0, <<TRUE, TRUE>>, <<>>, NoOptions, BadTrigger, FALSE),
     Cfg("sequence", 1, 1, 0, <<TRUE, TRUE>>, <<>>,
         [checks |-> <<"Y", "N">>, timeout |-> 0], IntervalTrigger, FALSE),
     Cfg("bogus", 1, 1, 0, <<TRUE, TRUE>>, <<>>, NoOptions, NoTrigger, FALSE)}

\* the names the editor uses
EditNames == {"D", "Y", "S", "N"}

\* the site record of the current state
Site ==
    [heap |-> heap, checks |-> checks, actions |-> actions, jobs |-> jobs,
     scheduler |-> scheduler, exc |-> ""]

SiteInit ==
    \E doc \in SiteDocuments :
        \E site \in {loadSite(doc)} :
           /\ heap = site.heap
           /\ pre = site.heap
           /\ checks = site.checks
           /\ actions = site.actions
           /\ jobs = site.jobs
           /\ scheduler = site.scheduler
           /\ clock = 0
           /\ sent = <<>>
           /\ ran = <<>>
           /\ outs = <<>>
           /\ last = [op |-> "loadSite", id |-> 0, ret |-> PyNone, name |-> "", exc |-> ""]
           /\ prior = NoPrior
           /\ codec = NoCodec
           /\ ExtIdle

\* the editor adds a probe
AddCheck ==
    /\ clock < MaxOps
    /\ \E name \in EditNames, config \in EditConfigs :
        \E s \in {addCheck(Site, name, config)} :
           /\ heap' = s.heap
           /\ checks' = s.checks
           /\ jobs' = s.jobs
           /\ last' = [op |-> "addCheck", id |-> 0, ret |-> PyNone,
                       name |-> name, exc |-> s.exc]
           /\ prior' = [has |-> TRUE, ops |-> "addCheck", name |-> name,
                        heap |-> heap, checks |-> checks, jobs |-> jobs,
                        added |-> s.checks # checks]
    /\ pre' = heap
    /\ clock' = clock + 1
    /\ sent' = <<>>
    /\ ran' = <<>>
    /\ outs' = <<>>
    /\ UNCHANGED <<actions, scheduler, codec>>
    /\ UNCHANGED extVars

\* the editor deletes a probe; prior is kept when this undoes the addCheck
\* that came just before
DeleteCheck ==
    /\ clock < MaxOps
    /\ \E name \in EditNames :
        \E s \in {deleteCheck(Site, name)} :
           /\ heap' = s.heap
           /\ checks' = s.checks
           /\ jobs' = s.jobs
           /\ last' = [op |-> "deleteCheck", id |-> 0, ret |-> PyNone,
                       name |-> name, exc |-> s.exc]
           /\ prior' = IF last.op = "addCheck" /\ last.name = name
                       THEN [prior EXCEPT !.ops = "addCheck;deleteCheck"]
                       ELSE NoPrior
    /\ pre' = heap
    /\ clock' = clock + 1
    /\ sent' = <<>>
    /\ ran' = <<>>
    /\ outs' = <<>>
    /\ UNCHANGED <<actions, scheduler, codec>>
    /\ UNCHANGED extVars

\* the editor saves a probe under its own or another name
UpdateCheck ==
    /\ clock < MaxOps
    /\ \E oldName \in EditNames, newName \in EditNames, config \in EditConfigs :
        \E s \in {updateCheck(Site, oldName, newName, config)} :
           /\ heap' = s.heap
           /\ checks' = s.checks
           /\ jobs' = s.jobs
           /\ last' = [op |-> "updateCheck", id |-> 0, ret |-> PyNone,
                       name |-> oldName, exc |-> s.exc, newName |-> newName,
                       oldId |-> IF DictHas(checks, oldName)
                                 THEN DictGet(checks, oldName) ELSE 0]
    /\ prior' = NoPrior
    /\ pre' = heap
    /\ clock' = clock + 1
    /\ sent' = <<>>
    /\ ran' = <<>>
    /\ outs' = <<>>
    /\ UNCHANGED <<actions, scheduler, codec>>
    /\ UNCHANGED extVars

SiteNext == AddCheck \/ DeleteCheck \/ UpdateCheck

SiteSpec == SiteInit /\ [][SiteNext]_vars

\* ----------------------------------------------------------------- C9
\* C9 as stated: addCheck with a name that is already a key of site.checks
\* reports an error and leaves the registered probes, the scheduler's jobs
\* and every existing probe (its depends / checks edges included) unchanged.
C9_Original ==
    (last.op = "addCheck" /\ DictHas(prior.checks, last.name)) =>
        /\ last.exc # ""
        /\ checks = prior.checks
        /\ jobs = prior.jobs
        /\ \A id \in 1..Len(prior.heap) : heap[id] = prior.heap[id]

\* ---------------------------------------------------------------- C10
\* addCheck(name) on a site without name, then deleteCheck(name)
Undone ==
    /\ prior.has
    /\ prior.ops = "addCheck;deleteCheck"
    /\ ~DictHas(prior.checks, prior.name)

\* C10 as stated: addCheck(name, config) on a site without name followed by
\* deleteCheck(name) restores the probe names, the job ids, and the depends,
\* sequence checks and options.checks of every other probe.
C10_Original ==
    Undone =>
        /\ checks = prior.checks
        /\ DictKeySet(jobs) = DictKeySet(prior.jobs)
        /\ \A i \in 1..Len(prior.checks) :
            LET b == prior.heap[prior.checks[i].v]
                a == heap[prior.checks[i].v]
            IN /\ a.depends = b.depends
               /\ a.checks = b.checks
               /\ a.options.checks = b.options.checks

\* list s without its first entry equal to x
WithoutFirst(s, x) ==
    IF \E i \in 1..Len(s) : s[i] = x
    THEN LET i == CHOOSE k \in 1..Len(s) : s[k] = x /\ \A j \in 1..(k - 1) : s[j] # x
         IN SubSeq(s, 1, i - 1) \o SubSeq(s, i + 1, Len(s))
    ELSE s

\* C10 (amended): addCheck(name, config) on a site without name followed by
\* deleteCheck(name) restores the probe names and the job ids; the depends,
\* sequence checks and options.checks of every other probe are restored
\* except for a reference to name they held before the addCheck: when
\* addCheck registered the probe, deleteCheck has removed that key from
\* depends and checks and the first such entry from options.checks.
C10_UndoExceptDangling ==
    Undone =>
        /\ checks = prior.checks
        /\ DictKeySet(jobs) = DictKeySet(prior.jobs)
        /\ \A i \in 1..Len(prior.checks) :
            LET b == prior.heap[prior.checks[i].v]
                a == heap[prior.checks[i].v]
            IN IF prior.added
               THEN /\ a.depends = DictDel(b.depends, prior.name)
                    /\ a.checks = DictDel(b.checks, prior.name)
                    /\ a.options.checks = WithoutFirst(b.options.checks, prior.name)
               ELSE /\ a.depends = b.depends
                    /\ a.checks = b.checks
                    /\ a.options.checks = b.options.checks

\* a scheduled probe was added to a site and deleted again
C10_Witness ==
    /\ Undone
    /\ prior.added
    /\ Len(heap) > Len(prior.heap)
    /\ heap[Len(heap)].trigger.kind = "interval"
    /\ DictKeySet(jobs) = DictKeySet(prior.jobs)
    /\ \E i \in 1..Len(prior.checks) :
        prior.name \in SeqSet(prior.heap[prior.checks[i].v].options.checks)

\* ---------------------------------------------------------------- C11
\* the last operation was an updateCheck(old, new, config), old # new, that
\* returned normally
Renamed ==
    /\ last.op = "updateCheck"
    /\ last.exc = ""
    /\ last.name # last.newName

\* C11 as stated: after updateCheck(old, new, cfg) with old # new completes,
\* no other probe of the site has old as a key of depends, as a key of a
\* sequence's checks or as an element of options.checks, every edge that
\* was keyed old now points at the probe registered under new, and the
\* scheduler has no job with id old.
C11_Original ==
    Renamed =>
        /\ ~DictHas(jobs, last.name)
        /\ \A i \in 1..Len(checks) :
            checks[i].k # last.newName =>
                LET a == heap[checks[i].v]
                    b == pre[checks[i].v]
                IN /\ ~DictHas(a.depends, last.name)
                   /\ ~DictHas(a.checks, last.name)
                   /\ last.name \notin SeqSet(a.options.checks)
                   /\ DictHas(b.depends, last.name) =>
                        /\ DictHas(a.depends, last.newName)
                        /\ DictGet(a.depends, last.newName) = DictGet(checks, last.newName)
                   /\ DictHas(b.checks, last.name) =>
                        /\ DictHas(a.checks, last.newName)
                        /\ DictGet(a.checks, last.newName) = DictGet(checks, last.newName)

\* ---------------------------------------------------------------- C12
\* every entry of the dict d names a probe registered in site.checks and
\* holds the very object registered under that name
Registered(d) ==
    \A j \in 1..Len(d) : DictHas(checks, d[j].k) /\ DictGet(checks, d[j].k) = d[j].v

\* C12 as stated: after any sequence of site operations every dependency
\* edge and every sequence-membership edge of every probe of the site
\* refers to the object registered in site.checks under that name, and after
\* deleteCheck(name) no probe has name in depends, in a sequence's checks or
\* in options.checks.
C12_Original ==
    /\ \A i \in 1..Len(checks) :
        Registered(heap[checks[i].v].depends) /\ Registered(heap[checks[i].v].checks)
    /\ last.op = "deleteCheck" =>
        \A i \in 1..Len(checks) :
            /\ ~DictHas(heap[checks[i].v].depends, last.name)
            /\ ~DictHas(heap[checks[i].v].checks, last.name)
            /\ last.name \notin SeqSet(heap[checks[i].v].options.checks)

\* ---------------------------------------------------------------- C13
\* C13 as stated: in every site state no probe has its own name as a key of
\* its depends, and no sequence probe has its own name as a key of its
\* checks.
C13_Original ==
    \A i \in 1..Len(checks) :
        /\ ~DictHas(heap[checks[i].v].depends, checks[i].k)
        /\ ~DictHas(heap[checks[i].v].checks, checks[i].k)

\* ----------------------------------------- saving the site (util.py)
\* saveSite calls run in one behaviour
MaxSaves == 2

\* the document json.dump writes for the site's n-th state, in the pieces
\* it passes to write()
Doc(n) == <<"{", "\"state\": " \o ToString(n), "}">>

\* site.configFile + token_hex(6), a fresh name for each call
LinkName(n) == "config." \o ToString(n)

\* NamedTemporaryFile(prefix='sav_', suffix='.tmp', dir='.'), a fresh name
TempName(n) == "sav_" \o ToString(n) \o ".tmp"

\* os.path.exists(path)
os_path_exists(fs, path) == DictHas(fs.dir, path)

\* os.link(src, dst): dst is a second name of src's inode
os_link(fs, src, dst) ==
    [fs EXCEPT !.dir = DictSet(fs.dir, dst, DictGet(fs.dir, src))]

\* os.rename(src, dst): dst names src's inode, in one step, and src is gone
os_rename(fs, src, dst) ==
    [fs EXCEPT !.dir = DictSet(DictDel(fs.dir, src), dst, DictGet(fs.dir, src))]

\* os.chmod(path, perm)
os_chmod(fs, path, perm) ==
    [fs EXCEPT !.inodes[DictGet(fs.dir, path)].mode = perm]

\* write() on an open file: the data goes to the inode the handle holds
write(fs, ino, chunk) ==
    [fs EXCEPT !.inodes[ino].data = Append(@, chunk)]

\* what open(path).read() returns at this moment
Content(fs, path) ==
    IF os_path_exists(fs, path) THEN fs.inodes[DictGet(fs.dir, path)].data
    ELSE <<"FileNotFoundError">>

\* SaveFile.__init__ opening the target itself for writing
SaveFile_init_InPlace(fs, sv) ==
    [fs |-> [fs EXCEPT !.inodes[DictGet(fs.dir, "config")].data = <<>>],
     sv |-> [sv EXCEPT !.pc = "dump", !.tfile = "config",
                       !.ino = DictGet(fs.dir, "config")]]

\* SaveFile.__init__: a new, empty temporary file in the target's directory
SaveFile_init(fs, sv) ==
    [fs |-> [fs EXCEPT !.inodes = Append(fs.inodes, [data |-> <<>>, mode |-> "0600"]),
                       !.dir = DictSet(fs.dir, TempName(sv.n), Len(fs.inodes) + 1)],
     sv |-> [sv EXCEPT !.pc = "dump", !.tfile = TempName(sv.n),
                       !.ino = Len(fs.inodes) + 1]]

\* saveSite's backup taken by moving the target away
saveSite_link_Move(fs, sv) ==
    os_rename(fs, "config", sv.tmpName)

\* saveSite, `os.link(site.configFile, tmpName)`
saveSite_link(fs, sv) ==
    os_link(fs, "config", sv.tmpName)

\* the directory holds the configuration the site was loaded from
SaveInit ==
    /\ heap = <<>>
    /\ pre = <<>>
    /\ checks = <<>>
    /\ actions = {}
    /\ jobs = <<>>
    /\ scheduler = "running"
    /\ clock = 0
    /\ sent = <<>>
    /\ ran = <<>>
    /\ outs = <<>>
    /\ last = [op |-> "loadSite", id |-> 0, ret |-> PyNone]
    /\ prior = NoPrior
    /\ codec = NoCodec
    /\ files = [dir |-> <<[k |-> "config", v |-> 1]>>,
                inodes |-> <<[data |-> Doc(0), mode |-> "0600"]>>]
    /\ save = [pc |-> "idle", n |-> 0, base |-> Doc(0), tmpName |-> "",
               tfile |-> "", ino |-> 0, k |-> 0, at |-> ""]
    /\ reader = [pc |-> "idle", ino |-> 0, seen |-> <<>>]
    /\ siteLog = <<>>
    /\ TasksIdle
    /\ LocksIdle

\* the site and the trigger editor, which saving does not change
siteVars == <<coreVars, siteLog, taskVars, lockVars>>

\* saveSite is called and builds dstCfg from the site's current state
SaveBegin ==
    /\ save.pc \in {"idle", "done", "raised", "crashed"}
    /\ save.n < MaxSaves
    /\ save' = [pc |-> "exists", n |-> save.n + 1, base |-> Content(files, "config"),
                tmpName |-> "", tfile |-> "", ino |-> 0, k |-> 0, at |-> ""]
    /\ UNCHANGED <<siteVars, files, reader>>

\* `if os.path.exists(site.configFile): tmpName = ...`
SaveExists ==
    /\ save.pc = "exists"
    /\ save' = IF os_path_exists(files, "config")
               THEN [save EXCEPT !.pc = "link", !.tmpName = LinkName(save.n)]
               ELSE [save EXCEPT !.pc = "open"]
    /\ UNCHANGED <<siteVars, files, reader>>

\* `os.link(site.configFile, tmpName)`
SaveLink ==
    /\ save.pc = "link"
    /\ files' = saveSite_link(files, save)
    /\ save' = [save EXCEPT !.pc = "open"]
    /\ UNCHANGED <<siteVars, reader>>

\* `with SaveFile(site.configFile) as f:`
SaveOpen ==
    /\ save.pc = "open"
    /\ \E r \in {SaveFile_init(files, save)} :
        /\ files' = r.fs
        /\ save' = r.sv
    /\ UNCHANGED <<siteVars, reader>>

\* json.dump(dstCfg, f): one more piece of the document reaches the file
SaveDump ==
    /\ save.pc = "dump"
    /\ files' = write(files, save.ino, Doc(save.n)[save.k + 1])
    /\ save' = [save EXCEPT !.k = save.k + 1,
                            !.pc = IF save.k + 1 = Len(Doc(save.n))
                                   THEN "close" ELSE "dump"]
    /\ UNCHANGED <<siteVars, reader>>

\* json.dump raises (the disk is full): SaveFile.__exit__ closes the
\* temporary file and lets the exception out of saveSite
SaveRaises ==
    /\ save.pc = "dump"
    /\ save' = [save EXCEPT !.pc = "raised", !.at = "dump"]
    /\ UNCHANGED <<siteVars, files, reader>>

\* SaveFile.__exit__, `self.__tfile.close()`
SaveClose ==
    /\ save.pc = "close"
    /\ save' = [save EXCEPT !.pc = "chmod"]
    /\ UNCHANGED <<siteVars, files, reader>>

\* SaveFile.__exit__, `os.chmod(self.__tfile.name, self.__perm)`
SaveChmod ==
    /\ save.pc = "chmod"
    /\ files' = os_chmod(files, save.tfile, "0600")
    /\ save' = [save EXCEPT !.pc = "rename"]
    /\ UNCHANGED <<siteVars, reader>>

\* SaveFile.__exit__, `os.rename(self.__tfile.name, self.__sfile)`
SaveRename ==
    /\ save.pc = "rename"
    /\ files' = os_rename(files, save.tfile, "config")
    /\ save' = [save EXCEPT !.pc = "backup"]
    /\ UNCHANGED <<siteVars, reader>>

\* `if tmpName is not None: os.rename(tmpName, site.configFile + '.bak')`
SaveBackup ==
    /\ save.pc = "backup"
    /\ files' = IF save.tmpName # ""
                THEN os_rename(files, save.tmpName, "config.bak") ELSE files
    /\ save' = [save EXCEPT !.pc = "done"]
    /\ UNCHANGED <<siteVars, reader>>

\* the process stops before its next step
SaveCrash ==
    /\ save.pc \in {"exists", "link", "open", "dump", "close", "chmod", "rename",
                    "backup"}
    /\ save' = [save EXCEPT !.pc = "crashed", !.at = save.pc]
    /\ UNCHANGED <<siteVars, files, reader>>

\* another process opens the configuration path
ReaderOpen ==
    /\ reader.pc \in {"idle", "read"}
    /\ reader' = IF os_path_exists(files, "config")
                 THEN [pc |-> "open", ino |-> DictGet(files.dir, "config"),
                       seen |-> <<>>]
                 ELSE [pc |-> "read", ino |-> 0, seen |-> <<"FileNotFoundError">>]
    /\ UNCHANGED <<siteVars, files, save>>

\* ... and reads the file it opened
ReaderRead ==
    /\ reader.pc = "open"
    /\ reader' = [reader EXCEPT !.pc = "read", !.seen = files.inodes[reader.ino].data]
    /\ UNCHANGED <<siteVars, files, save>>

SaveNext ==
    \/ SaveBegin \/ SaveExists \/ SaveLink \/ SaveOpen \/ SaveDump \/ SaveRaises
    \/ SaveClose \/ SaveChmod \/ SaveRename \/ SaveBackup \/ SaveCrash
    \/ ReaderOpen \/ ReaderRead

SaveSpec == SaveInit /\ [][SaveNext]_vars

\* ---------------------------------------------------------------- C14
\* a whole document, as some call of saveSite wrote it
Complete(d) == \E n \in 0..MaxSaves : d = Doc(n)

\* C14: at every step of saveSite, and when the process stops after any
\* step, the configuration path holds the whole document it held when
\* saveSite was called or the whole new document, and whatever a concurrent
\* reader reads from it is a whole document.
C14_AtomicSave ==
    /\ Content(files, "config") \in {save.base, Doc(save.n)}
    /\ Complete(Content(files, "config"))
    /\ reader.pc = "read" => Complete(reader.seen)

\* a reader read the previous document while the new one was half written
C14_Witness ==
    /\ save.pc = "dump"
    /\ save.k = 1
    /\ save.n = MaxSaves
    /\ reader.pc = "read"
    /\ reader.seen = save.base
    /\ Content(files, save.tfile) = <<"{">>

\* ---------------------------------------------------------------- C15
\* C15: when saveSite finds a target and returns normally, the target holds
\* the new document and config.bak the document the target held at the
\* call; when the process stops after the hard link is made and before the
\* rename is done, the target holds that previous document.
C15_BackupIsPrevious ==
    /\ (save.pc = "done" /\ save.tmpName # "") =>
            /\ Content(files, "config") = Doc(save.n)
            /\ Content(files, "config.bak") = save.base
    /\ (save.pc = "crashed"
        /\ save.at \in {"open", "dump", "close", "chmod", "rename"}) =>
            Content(files, "config") = save.base

\* the second save succeeded: config.bak holds what the first one wrote
C15_Witness ==
    /\ save.pc = "done"
    /\ save.n = MaxSaves
    /\ save.tmpName # ""
    /\ save.base = Doc(MaxSaves - 1)
    /\ Content(files, "config.bak") = Doc(MaxSaves - 1)
    /\ Content(files, "config") = Doc(MaxSaves)

\* --------------------------------------------- the site log (util.py)
\* records LogHandler.emit receives in one behaviour
MaxEmits == 4

\* LogHandler.emit, `if len(self.site.log) > 200`
LogLimit == 200

\* LogHandler.emit, `del (self.site.log[0:10])`
LogPrune == 10

\* the log list of a configuration document: n records
DocLog(n) == [i \in 1..n |-> "old record"]

\* the lengths of the log lists of the documents loaded
DocLogLens == {0, LogLimit - 2, LogLimit, LogLimit + 1}

\* LogHandler.emit(record): append, and drop the 10 oldest records when the
\* list has grown past 200
emit(l, msg) ==
    IF Len(Append(l, msg)) > LogLimit
    THEN SubSeq(Append(l, msg), LogPrune + 1, Len(l) + 1)
    ELSE Append(l, msg)

\* loadSite, `site.log = srcCfg['log']`: the document's list as it is
LogInit ==
    /\ heap = <<>>
    /\ pre = <<>>
    /\ checks = <<>>
    /\ actions = {}
    /\ jobs = <<>>
    /\ scheduler = "running"
    /\ clock = 0
    /\ sent = <<>>
    /\ ran = <<>>
    /\ outs = <<>>
    /\ last = [op |-> "loadSite", id |-> 0, ret |-> PyNone]
    /\ prior = NoPrior
    /\ codec = NoCodec
    /\ FilesIdle
    /\ TasksIdle
    /\ LocksIdle
    /\ \E n \in DocLogLens : siteLog = DocLog(n)

\* a record of level WARNING or above reaches the handler
Emit ==
    /\ clock < MaxEmits
    /\ \E msg \in {"warning", "error"} : siteLog' = emit(siteLog, msg)
    /\ clock' = clock + 1
    /\ last' = [op |-> "emit", id |-> 0, ret |-> PyNone]
    /\ UNCHANGED <<heap, pre, checks, actions, jobs, scheduler, sent, ran, outs,
                   prior, codec, fileVars, taskVars, lockVars>>

LogNext == Emit

LogSpec == LogInit /\ [][LogNext]_vars

\* ---------------------------------------------------------------- C16
\* C16 as stated: in every reachable state the site log holds at most 200
\* entries, also right after loadSite replaced it by the list of the
\* configuration document.
C16_Original == Len(siteLog) <= LogLimit

\* ------------------------------------------ a running site (__init__.py)
\* FletchSite.run loads the site, waits for the shutdown event and saves.
\* The jobs of the AsyncIOScheduler call BaseCheck.update, a plain function,
\* which its executor runs in the event loop's thread pool: one thread per
\* firing, and no second instance of a job id while one is running.  The
\* event loop itself runs one callback at a time: a runCheck() call from
\* the user interface, the SIGTERM handler, or the main coroutine.
\* A task is [task, stack]: task is the job id or "loop", stack the update()
\* calls it is inside, each [id, i, names] with names the sorted sub-probe
\* names of a sequence and i how many of them were called.

\* the sites run
RunDocuments ==
    {DocSite(<<>>), DocSite(<<"D">>), DocSequence(1, 1, <<TRUE, TRUE>>, FALSE)}

\* the configuration files a site is started on: a readable document, with
\* or without a 'webui' key, a path that cannot be opened, or a file that
\* is not JSON
RunFiles ==
    {[state |-> "ok", doc |-> d, webui |-> w] : d \in RunDocuments, w \in BOOLEAN}
    \cup {[state |-> st, doc |-> DocSite(<<>>), webui |-> TRUE] :
            st \in {"missing", "invalid"}}

\* loadSite on a configuration file: open() or json.load() raises inside
\* the try block before anything of the site is assigned
loadFile(file) ==
    IF file.state = "ok" THEN loadSite(file.doc)
    ELSE [heap |-> <<>>, checks |-> <<>>, actions |-> {}, jobs |-> <<>>,
          scheduler |-> "none",
          exc |-> IF file.state = "missing" THEN "FileNotFoundError"
                  ELSE "JSONDecodeError"]

\* FletchSite() with configFile chosen: nothing is loaded.  main is
\* [pc, ret, config, sigterm, webui, saves]: the SIGTERM handler and the
\* web UI are installed, saveConfig() has been called saves times
RunInit ==
    /\ heap = <<>>
    /\ pre = <<>>
    /\ checks = <<>>
    /\ actions = {}
    /\ jobs = <<>>
    /\ scheduler = "none"
    /\ \E file \in RunFiles :
        main = [pc |-> "start", ret |-> 0, config |-> file,
                sigterm |-> FALSE, webui |-> FALSE, saves |-> 0]
    /\ clock = 0
    /\ sent = <<>>
    /\ ran = <<>>
    /\ outs = <<>>
    /\ last = [op |-> "init", id |-> 0, ret |-> PyNone]
    /\ prior = NoPrior
    /\ codec = NoCodec
    /\ FilesIdle
    /\ siteLog = <<>>
    /\ threads = {}
    /\ LocksIdle

\* run() without `if self.scheduler is None: return -1`
run_start_NoCheck(m, site) ==
    [m EXCEPT !.pc = "waiting", !.sigterm = TRUE,
              !.webui = m.config.state = "ok" /\ m.config.webui]

\* run() after loadConfig(): return -1 when no scheduler was set, else
\* install the SIGTERM handler, load the web UI when the document has a
\* 'webui' key, and wait for the shutdown event
run_start(m, site) ==
    IF site.scheduler = "none"
    THEN [m EXCEPT !.pc = "exited", !.ret = -1]
    ELSE [m EXCEPT !.pc = "waiting", !.sigterm = TRUE,
                   !.webui = m.config.state = "ok" /\ m.config.webui]

\* run(), from loadConfig() to `await self._shutdown.wait()`
RunStart ==
    /\ main.pc = "start"
    /\ \E site \in {loadFile(main.config)} :
        /\ heap' = site.heap
        /\ pre' = heap
        /\ checks' = site.checks
        /\ actions' = site.actions
        /\ jobs' = site.jobs
        /\ scheduler' = site.scheduler
        /\ main' = run_start(main, site)
    /\ last' = [op |-> "loadSite", id |-> 0, ret |-> PyNone]
    /\ UNCHANGED <<clock, sent, ran, outs, prior, codec>>
    /\ UNCHANGED <<fileVars, siteLog, lockVars, threads>>

\* the event loop is not inside a callback
LoopIdle == main.pc # "saving" /\ \A t \in threads : t.task # "loop"

\* the tasks that are inside update() of the probe object id
InUpdate(id) == {t \in threads : \E k \in 1..Len(t.stack) : t.stack[k].id = id}

\* update() is entered on the probe object id: a sequence probe that is not
\* soft-failed sorts the names of its sub-probes once, before it calls any
Frame(h, id) ==
    [id |-> id, i |-> 0,
     names |-> IF h[id].checkType = "sequence" /\ FirstFailDep(h, h[id].depends) = 0
               THEN SortedChecks(h, h[id].checks) ELSE <<>>]

\* one step of a task: a sequence probe calls update() of self.checks[name]
\* for the next name of its sorted list, and a name that is no longer a key
\* raises KeyError out of every update() the task is inside; any other
\* update() returns
Step(h, stack) ==
    LET f == stack[Len(stack)]
    IN IF f.i < Len(f.names)
       THEN IF DictHas(h[f.id].checks, f.names[f.i + 1])
            THEN Append([stack EXCEPT ![Len(stack)].i = f.i + 1],
                        Frame(h, DictGet(h[f.id].checks, f.names[f.i + 1])))
            ELSE <<>>
       ELSE SubSeq(stack, 1, Len(stack) - 1)

\* what the site's probes, the files and the locks are left as
runFrame == <<coreVars, fileVars, siteLog, lockVars>>

\* the scheduler fires a job whose last firing is over
JobStart ==
    /\ scheduler = "running"
    /\ main.pc \in {"waiting", "woken"}
    /\ LoopIdle
    /\ \E j \in 1..Len(jobs) :
        /\ \A t \in threads : t.task # jobs[j].k
        /\ threads' = threads \cup
                {[task |-> jobs[j].k, stack |-> <<Frame(heap, jobs[j].v)>>]}
    /\ UNCHANGED <<runFrame, main>>

\* the user interface calls site.runCheck(name)
RunCheckStart ==
    /\ main.webui
    /\ main.pc \in {"waiting", "woken"}
    /\ LoopIdle
    /\ \E i \in 1..Len(checks) :
        threads' = threads \cup
                {[task |-> "loop", stack |-> <<Frame(heap, checks[i].v)>>]}
    /\ UNCHANGED <<runFrame, main>>

\* a task goes on
TaskStep ==
    /\ \E t \in threads :
        \E stack \in {Step(heap, t.stack)} :
           threads' = (threads \ {t}) \cup
                (IF stack = <<>> THEN {} ELSE {[task |-> t.task, stack |-> stack]})
    /\ UNCHANGED <<runFrame, main>>

\* SIGTERM: _sigterm sets the shutdown event
Sigterm ==
    /\ main.sigterm
    /\ main.pc = "waiting"
    /\ LoopIdle
    /\ main' = [main EXCEPT !.pc = "woken"]
    /\ UNCHANGED <<runFrame, threads>>

\* the main coroutine resumes after `await self._shutdown.wait()` and
\* enters saveConfig()
SaveConfigStart ==
    /\ main.pc = "woken"
    /\ LoopIdle
    /\ main' = [main EXCEPT !.pc = "saving", !.saves = @ + 1]
    /\ UNCHANGED <<runFrame, threads>>

\* saveConfig() returns and run() returns 0
SaveConfigEnd ==
    /\ main.pc = "saving"
    /\ main' = [main EXCEPT !.pc = "exited", !.ret = 0]
    /\ UNCHANGED <<runFrame, threads>>

RunNext ==
    \/ RunStart
    \/ JobStart \/ RunCheckStart \/ TaskStep
    \/ Sigterm \/ SaveConfigStart \/ SaveConfigEnd

RunSpec == RunInit /\ [][RunNext]_vars

\* ---------------------------------------------------------------- C17
\* C17 as stated: no probe's update() is executing in two tasks at once,
\* whether it was entered from the probe's own job, from a scheduled
\* sequence that lists the probe, or from runCheck(name).
C17_Original ==
    \A id \in 1..Len(heap) : Cardinality(InUpdate(id)) <= 1

\* ---------------------------------------------------------------- C19
\* C19 as stated: after the shutdown event is set the main coroutine stops
\* the scheduler before it saves, and the document is not saved while an
\* update started by the scheduler is in progress.
C19_Original ==
    /\ main.pc \in {"saving", "exited"} => scheduler = "stopped"
    /\ main.pc = "saving" => threads = {}

\* --------------------------------------- the serial port locks (check.py)
\* _serialLock maps a serial port path to a threading.Lock; the entry for
\* '' is made at import and guards the creation of the others.  A lock is
\* an index into serialLock.locks, which holds the thread that owns it or
\* 0.  upsStatus._runCheck and upsTest._runCheck take the same steps; each
\* runs in the thread of the job that fired it.

\* the threads running UPS probes
MaxUps == 2
\* how often each thread runs a probe
MaxRuns == 2

\* the serialPort options of the UPS probes; '' is the option's default
UpsPorts == {"", "/dev/ttyS0", "/dev/ttyS1"}

\* _serialLock = {'': Lock()}
LockInit ==
    /\ heap = <<>>
    /\ pre = <<>>
    /\ checks = <<>>
    /\ actions = {}
    /\ jobs = <<>>
    /\ scheduler = "running"
    /\ clock = 0
    /\ sent = <<>>
    /\ ran = <<>>
    /\ outs = <<>>
    /\ last = [op |-> "import", id |-> 0, ret |-> PyNone]
    /\ prior = NoPrior
    /\ codec = NoCodec
    /\ FilesIdle
    /\ siteLog = <<>>
    /\ TasksIdle
    /\ serialLock = [reg |-> <<[k |-> "", v |-> 1]>>, locks |-> <<0>>]
    /\ ups = [i \in 1..MaxUps |-> [pc |-> "idle", port |-> "", lk |-> 0, runs |-> 0]]

\* what the UPS probes leave alone
lockFrame == <<coreVars, fileVars, siteLog, taskVars>>

\* Lock.acquire(): blocks while another thread owns the lock
Acquire(locks, lk, i) == [locks EXCEPT ![lk] = i]

\* Lock.release()
Release(locks, lk) == [locks EXCEPT ![lk] = 0]

\* serialPort = self.getStrOpt('serialPort', ''); if serialPort:
UpsStart ==
    /\ \E i \in 1..Len(ups) : \E port \in UpsPorts :
        /\ ups[i].pc = "idle"
        /\ ups[i].runs < MaxRuns
        /\ ups' = [ups EXCEPT ![i].port = port,
                              ![i].pc = IF port # "" THEN "test" ELSE "lookup"]
    /\ UNCHANGED <<lockFrame, serialLock>>

\* if serialPort not in _serialLock:
UpsTest ==
    /\ \E i \in 1..Len(ups) :
        /\ ups[i].pc = "test"
        /\ ups' = [ups EXCEPT ![i].pc = IF DictHas(serialLock.reg, ups[i].port)
                                        THEN "lookup" ELSE "enter"]
    /\ UNCHANGED <<lockFrame, serialLock>>

\* with _serialLock['']:  (entry)
UpsEnter ==
    /\ \E i \in 1..Len(ups) :
        /\ ups[i].pc = "enter"
        /\ serialLock.locks[DictGet(serialLock.reg, "")] = 0
        /\ serialLock' = [serialLock EXCEPT
                !.locks = Acquire(@, DictGet(serialLock.reg, ""), i)]
        /\ ups' = [ups EXCEPT ![i].pc = "create"]
    /\ UNCHANGED lockFrame

\* _serialLock[serialPort] = Lock()
UpsCreate ==
    /\ \E i \in 1..Len(ups) :
        /\ ups[i].pc = "create"
        /\ serialLock' = [reg |-> DictSet(serialLock.reg, ups[i].port,
                                          Len(serialLock.locks) + 1),
                          locks |-> Append(serialLock.locks, 0)]
        /\ ups' = [ups EXCEPT ![i].pc = "leave"]
    /\ UNCHANGED lockFrame

\* with _serialLock['']:  (exit)
UpsLeave ==
    /\ \E i \in 1..Len(ups) :
        /\ ups[i].pc = "leave"
        /\ serialLock' = [serialLock EXCEPT
                !.locks = Release(@, DictGet(serialLock.reg, ""))]
        /\ ups' = [ups EXCEPT ![i].pc = "lookup"]
    /\ UNCHANGED lockFrame

\* with _serialLock[serialPort]:  (the subscript is evaluated)
UpsLookup ==
    /\ \E i \in 1..Len(ups) :
        /\ ups[i].pc = "lookup"
        /\ ups' = [ups EXCEPT ![i].lk = DictGet(serialLock.reg, ups[i].port),
                              ![i].pc = "acquire"]
    /\ UNCHANGED <<lockFrame, serialLock>>

\* with _serialLock[serialPort]:  (entry); the serial I/O follows
UpsAcquire ==
    /\ \E i \in 1..Len(ups) :
        /\ ups[i].pc = "acquire"
        /\ serialLock.locks[ups[i].lk] = 0
        /\ serialLock' = [serialLock EXCEPT !.locks = Acquire(@, ups[i].lk, i)]
        /\ ups' = [ups EXCEPT ![i].pc = "io"]
    /\ UNCHANGED lockFrame

\* the serial I/O is over, or raised: the with block is left
UpsRelease ==
    /\ \E i \in 1..Len(ups) :
        /\ ups[i].pc = "io"
        /\ serialLock' = [serialLock EXCEPT !.locks = Release(@, ups[i].lk)]
        /\ ups' = [ups EXCEPT ![i].pc = "idle", ![i].lk = 0,
                              ![i].runs = @ + 1]
    /\ UNCHANGED lockFrame

LockNext ==
    \/ UpsStart \/ UpsTest \/ UpsEnter \/ UpsCreate \/ UpsLeave
    \/ UpsLookup \/ UpsAcquire \/ UpsRelease

LockSpec == LockInit /\ [][LockNext]_vars

\* ---------------------------------------------------------------- C18
\* C18 as stated: for every serial port path at most one UPS probe is
\* inside its serial I/O section for that path at any time, also when two
\* probes for a path not yet in the registry start concurrently.
C18_Original ==
    \A i, j \in 1..Len(ups) :
        (i # j /\ ups[i].pc = "io" /\ ups[j].pc = "io")
            => ups[i].port # ups[j].port

\* ------------------------------------- loading a faulty document (util.py)
\* what can be wrong with one probe entry of a document: a type that is
\* not in CHECK_TYPES, an interval trigger whose options the scheduler
\* rejects, a trigger with neither an interval nor a cron key, an action
\* or a dependency the site does not have, a saved threshold of 0
Faults == {"none", "type", "trigger", "nokey", "action", "depend", "zero"}

\* the entry cfg with one fault
Faulty(cfg, fault) ==
    CASE fault = "type" -> [cfg EXCEPT !.type = "bogus"]
      [] fault = "trigger" -> [cfg EXCEPT !.trigger = BadTrigger]
      [] fault = "nokey" -> [cfg EXCEPT !.trigger = [kind |-> "other", ok |-> TRUE]]
      [] fault = "action" -> [cfg EXCEPT !.actions = Append(@, "pager")]
      [] fault = "depend" -> [cfg EXCEPT !.depends = Append(@, "Z")]
      [] fault = "zero" -> [cfg EXCEPT !.threshold = 0, !.retries = 0,
                                       !.data.threshold = 0]
      [] OTHER -> cfg

\* the document of D, Y, X and S with the faults f[1] .. f[4]
DocFaulty(f) ==
    [DocSite(<<>>) EXCEPT
        !.checks = [i \in 1..Len(@) |-> [@[i] EXCEPT !.cfg = Faulty(@, f[i])]]]

LoadDocuments == {DocFaulty(f) : f \in [1..4 -> Faults]}

\* FletchSite.__init__: nothing is loaded
LoadInit ==
    /\ heap = <<>>
    /\ pre = <<>>
    /\ checks = <<>>
    /\ actions = {}
    /\ jobs = <<>>
    /\ scheduler = "none"
    /\ clock = 0
    /\ sent = <<>>
    /\ ran = <<>>
    /\ outs = <<>>
    /\ last = [op |-> "init", id |-> 0, ret |-> PyNone]
    /\ prior = NoPrior
    /\ codec = NoCodec
    /\ ExtIdle

\* FletchSite.loadConfig() on a document; last.doc keeps the document
LoadConfig ==
    /\ last.op = "init"
    /\ \E doc \in LoadDocuments :
        \E site \in {loadSite(doc)} :
           /\ heap' = site.heap
           /\ pre' = heap
           /\ checks' = site.checks
           /\ actions' = site.actions
           /\ jobs' = site.jobs
           /\ scheduler' = site.scheduler
           /\ last' = [op |-> "loadConfig", id |-> 0, ret |-> PyNone, doc |-> doc]
    /\ UNCHANGED <<clock, sent, ran, outs, prior, codec, extVars>>

LoadNext == LoadConfig

LoadSpec == LoadInit /\ [][LoadNext]_vars

\* the scheduler accepts the trigger of the entry cfg
GoodTrigger(cfg) == cfg.trigger.kind \in {"interval", "cron"} /\ cfg.trigger.ok

\* ---------------------------------------------------------------- C20
\* C20 as stated: a configuration error in one probe entry never aborts
\* loadConfig: a probe of unknown type is skipped, every other probe is
\* loaded and scheduled, the scheduler is started, and a probe with an
\* invalid trigger ends with no trigger and no job.
C20_Original ==
    last.op = "loadConfig" =>
        /\ scheduler = "running"
        /\ \A i \in 1..Len(last.doc.checks) :
            LET e == last.doc.checks[i]
            IN IF e.cfg.type \notin CHECK_TYPES
               THEN ~DictHas(checks, e.name)
               ELSE /\ DictHas(checks, e.name)
                    /\ IF GoodTrigger(e.cfg)
                       THEN DictHas(jobs, e.name)
                       ELSE /\ ~DictHas(jobs, e.name)
                            /\ heap[DictGet(checks, e.name)].trigger = NoTrigger

\* ---------------------------------------------------------------- C21
\* C21: when the configuration file cannot be read or parsed, run()
\* returns -1, the scheduler is never started, neither the SIGTERM handler
\* nor the web UI is installed, and saveConfig() is not called.
C21_StartupFailure ==
    (main.config.state # "ok" /\ main.pc # "start") =>
        /\ main.pc = "exited"
        /\ main.ret = -1
        /\ scheduler = "none"
        /\ jobs = <<>>
        /\ threads = {}
        /\ ~main.sigterm
        /\ ~main.webui
        /\ main.saves = 0

\* run() has returned on a file that is not JSON
C21_Witness ==
    /\ main.config.state = "invalid"
    /\ main.pc = "exited"
    /\ main.ret = -1
    /\ last.op = "loadSite"

\* ---------------------------------------------------------------- C22
\* C22: remoteUpdate(checkType, data) calls the probe's actions exactly
\* when (a) data.failState is failing, data.failCount >= data.threshold,
\* data.failState differs by value from the prior failState and failAction
\* is set, or (b) data.failState is passing, the prior failState was
\* failing and passAction is set; failState, failCount, threshold, log,
\* softFail, lastCheck, lastFail and lastPass are always overwritten from
\* data, and the actions see the overwritten values.
C22_RemoteDispatch ==
    last.op = "remoteUpdate" =>
        LET b == pre[last.id]
            a == heap[last.id]
            d == last.data
            due == \/ /\ Truthy(d.failState)
                      /\ d.failCount >= d.threshold
                      /\ d.failState # b.failState
                      /\ b.failAction
                   \/ /\ ~Truthy(d.failState)
                      /\ Truthy(b.failState)
                      /\ b.passAction
        IN /\ a.failState = d.failState
           /\ a.failCount = d.failCount
           /\ a.threshold = d.threshold
           /\ a.log = d.log
           /\ a.softFail = d.softFail
           /\ a.lastCheck = d.lastCheck
           /\ a.lastFail = d.lastFail
           /\ a.lastPass = d.lastPass
           /\ IF due
              THEN /\ Len(sent) = Len(a.actions)
                   /\ \A i \in 1..Len(sent) :
                        sent[i] = [check |-> a.name, action |-> a.actions[i],
                                   failState |-> d.failState,
                                   lastFail |-> d.lastFail,
                                   lastPass |-> d.lastPass]
              ELSE sent = <<>>

\* a failing report below its threshold for a passing probe: overwritten,
\* nothing sent
C22_Witness ==
    /\ last.op = "remoteUpdate"
    /\ ~Truthy(pre[last.id].failState)
    /\ pre[last.id].failAction
    /\ Truthy(last.data.failState)
    /\ last.data.failCount < last.data.threshold
    /\ heap[last.id].failState = PyBool(TRUE)
    /\ sent = <<>>

\* ---------------------------------------------------------------- C23
\* the last handler was a scheduled update() of a remote probe that found
\* the last report older than options.timeout
Stale ==
    /\ TopRan
    /\ last.op = "job"
    /\ pre[last.id].checkType = "remote"
    /\ pre[last.id].options.timeout # 0
    /\ pre[last.id].lastUpdate # 0
    /\ clock - pre[last.id].lastUpdate > pre[last.id].options.timeout

\* C23 as stated: a scheduled update() that finds a passing remote probe
\* stale makes failState True on that update, logs a "Timeout waiting for
\* update" line and dispatches the fail action, whatever threshold and
\* failCount the last report wrote into the probe.
C23_Original ==
    (Stale /\ ~Truthy(pre[last.id].failState)) =>
        /\ heap[last.id].failState = PyBool(TRUE)
        /\ \E i \in 1..Len(heap[last.id].log) :
            heap[last.id].log[i] =
                "Timeout waiting for update "
                    \o ToString(clock - pre[last.id].lastUpdate) \o " sec"
        /\ heap[last.id].failAction => Dispatched(heap[last.id])

\* ---------------------------------------------------------------- C24
\* the last handler was a scheduled update() of a remote probe that did
\* not find it stale
NotStale ==
    /\ TopRan
    /\ last.op = "job"
    /\ pre[last.id].checkType = "remote"
    /\ ~Stale

\* C24 as stated: a scheduled update() of a remote probe that does not
\* find it stale (no timeout configured, no lastUpdate yet, or elapsed time
\* within the timeout) leaves failState as reported and leaves the log
\* equal to the log the probe held before the update.
C24_Original ==
    NotStale =>
        /\ heap[last.id].failState = pre[last.id].failState
        /\ heap[last.id].log = pre[last.id].log

\* ---------------------------------------------------------------- C25
\* C25 as stated: a probe created with threshold 2 and no runtime data,
\* whose first two updates fail and whose third passes, has after tick 1
\* failCount 1, failState false and nothing sent; after tick 2 failCount 2,
\* failState true, lastFail set and its actions called once; after tick 3
\* failCount 0, failState false, lastPass set and its actions called once.
C25_Original ==
    (TopRan /\ heap[last.id].name = "F") =>
        LET b == pre[last.id]
            a == heap[last.id]
        IN /\ (clock = 1 /\ Truthy(TopCur)) =>
                /\ a.failCount = 1
                /\ a.failState = PyBool(FALSE)
                /\ sent = <<>>
           /\ (clock = 2 /\ Truthy(TopCur) /\ b.failCount = 1) =>
                /\ a.failCount = 2
                /\ a.failState = PyBool(TRUE)
                /\ a.lastFail = clock
                /\ Dispatched(a)
           /\ (clock = 3 /\ ~Truthy(TopCur) /\ b.failCount = 2) =>
                /\ a.failCount = 0
                /\ a.failState = PyBool(FALSE)
                /\ a.lastPass = clock
                /\ Dispatched(a)

\* ---------------------------------------------------------------- C26
\* the last handler was an update() that ended in the soft-fail branch,
\* the first one since the probe last ran its check
FirstSoftFail ==
    /\ IsUpdate
    /\ outs = <<>>
    /\ heap[last.id].softFail # PyNone
    /\ pre[last.id].softFail = PyNone

\* C26 as stated: soft-failed updates do not discard or overwrite the log
\* the probe held immediately before the first soft-failed update, so that
\* it is available as oldLog on the first normally executed update after
\* the dependency clears.  That update sets oldLog from log, so after the
\* soft-failed update the probe must still hold the log in log or oldLog.
C26_Original ==
    FirstSoftFail =>
        pre[last.id].log \in {heap[last.id].log, heap[last.id].oldLog}

\* ---------------------------------------------------------------- C27
\* C27 as stated: the value update() returns equals the probe's failState
\* as it stands after the call, also when the call ends in the soft-fail
\* branch.
C27_Original ==
    IsUpdate => last.ret = heap[last.id].failState

\* ---------------------------------------------------------------- C28
\* the probes of the site that are in the fail state
Failing == {i \in 1..Len(checks) : Truthy(heap[checks[i].v].failState)}

\* the position in site.checks of the r-th entry of the status
StatusPos(r) == CHOOSE i \in 1..Len(checks) : checks[i].k = last.ret.checks[r].k

\* fail, info, the order of the entries and the frame of getStatus()
StatusShape ==
    /\ last.ret.fail = (Failing # {})
    /\ last.ret.info =
        (IF Failing = {} THEN PyNone
         ELSE PyStr(ToString(Cardinality(Failing)) \o " check"
                     \o (IF Cardinality(Failing) > 1 THEN "s" ELSE "")
                     \o " in fail state"))
    /\ Len(last.ret.checks) = Len(checks)
    /\ {last.ret.checks[r].k : r \in 1..Len(checks)} = DictKeySet(checks)
    /\ \A r \in 1..(Len(checks) - 1) :
        LET i == StatusPos(r)
            j == StatusPos(r + 1)
        IN \/ heap[checks[i].v].priority < heap[checks[j].v].priority
           \/ /\ heap[checks[i].v].priority = heap[checks[j].v].priority
              /\ i < j
    /\ heap = pre

\* C28 as stated: getStatus() returns fail iff some probe's failState is
\* truthy, info null or the exact number of failing probes, one entry per
\* probe in (priority, insertion) order carrying that probe's checkType,
\* failState, trigger, softFail, lastFail and lastPass, and changes nothing.
C28_Original ==
    last.op = "getStatus" =>
        /\ StatusShape
        /\ \A r \in 1..Len(checks) :
            LET c == heap[checks[StatusPos(r)].v]
                e == last.ret.checks[r].v
            IN /\ e.checkType = c.checkType
               /\ e.failState = c.failState
               /\ e.trigger = c.trigger
               /\ e.softFail = c.softFail
               /\ e.lastFail = PyTime(c.lastFail)
               /\ e.lastPass = PyTime(c.lastPass)

\* C28 (amended): as stated, except that an entry carries the empty string
\* in place of a softFail, lastFail or lastPass that is null.
C28_StatusOrEmpty ==
    last.op = "getStatus" =>
        /\ StatusShape
        /\ \A r \in 1..Len(checks) :
            LET c == heap[checks[StatusPos(r)].v]
                e == last.ret.checks[r].v
            IN /\ e.checkType = c.checkType
               /\ e.failState = c.failState
               /\ e.trigger = c.trigger
               /\ e.softFail = (IF c.softFail = PyNone THEN PyStr("") ELSE c.softFail)
               /\ e.lastFail = (IF c.lastFail = 0 THEN PyStr("") ELSE PyTime(c.lastFail))
               /\ e.lastPass = (IF c.lastPass = 0 THEN PyStr("") ELSE PyTime(c.lastPass))

\* two probes fail, one of them soft-failed and stamped, and the priority
\* order differs from the insertion order
C28_Witness ==
    /\ last.op = "getStatus"
    /\ Cardinality(Failing) = 2
    /\ last.ret.info = PyStr("2 checks in fail state")
    /\ \E r \in 1..Len(checks) : StatusPos(r) # r
    /\ \E r \in 1..Len(checks) :
        /\ last.ret.checks[r].v.lastFail # PyStr("")
        /\ last.ret.checks[r].v.lastPass = PyStr("")
    /\ \E r \in 1..Len(checks) : last.ret.checks[r].v.softFail # PyStr("")

\* ---------------------------------------------------------------- C29
\* C29: when a transition dispatches, notify() calls trigger(probe) on each
\* action attached to the probe exactly once, in the order they were
\* attached, and the probe's failState, lastFail and lastPass already hold
\* their values after the transition when the first action is called.
C29_NotifyInOrder ==
    \A id \in SiteIds :
        LET c == heap[id]
            s == SentFor(c.name)
            n == Len(c.actions)
            \* a handler may update a probe more than once (a sequence that
            \* retries): sent then holds one group of n calls per dispatch
            group(k) == (k - 1) \div n
        IN s # <<>> =>
            /\ Len(s) % n = 0
            /\ \A k \in 1..Len(s) :
                /\ s[k].action = c.actions[((k - 1) % n) + 1]
                /\ IsUpdate =>
                    (IF Truthy(s[k].failState) THEN s[k].lastFail = clock
                     ELSE s[k].lastPass = clock)
                /\ \A j \in 1..Len(s) :
                    /\ (group(j) = group(k)) =>
                        /\ s[j].failState = s[k].failState
                        /\ s[j].lastFail = s[k].lastFail
                        /\ s[j].lastPass = s[k].lastPass
                    /\ (group(j) = group(k) + 1) =>
                        s[j].failState # s[k].failState
            /\ s[1].failState # pre[id].failState
            /\ s[Len(s)].failState = c.failState
            /\ s[Len(s)].lastFail = c.lastFail
            /\ s[Len(s)].lastPass = c.lastPass

\* a probe with two actions went to the fail state and called both
C29_Witness ==
    \E id \in SiteIds :
        /\ IsUpdate
        /\ Len(heap[id].actions) = 2
        /\ Len(SentFor(heap[id].name)) = 2
        /\ SentFor(heap[id].name)[1].action = heap[id].actions[1]
        /\ SentFor(heap[id].name)[1].lastFail = clock
        /\ ~Truthy(pre[id].failState)
        /\ Truthy(heap[id].failState)

\* ---------------------------------------------------------------- C30
\* the last handler was update() or remoteUpdate() of the probe last.id
IsHandler == IsUpdate \/ last.op = "remoteUpdate"

\* the flag that governs a change to the value v
FlagFor(c, v) == IF Truthy(v) THEN c.failAction ELSE c.passAction

\* C30 as stated: update() and remoteUpdate() dispatch only in a call in
\* which the probe's failState changes by value, and every change of
\* failState they make dispatches the probe's actions when the flag for
\* the new value is true.
C30_Original ==
    IsHandler =>
        LET b == pre[last.id]
            a == heap[last.id]
        IN /\ SentFor(a.name) # <<>> => a.failState # b.failState
           /\ (a.failState # b.failState /\ FlagFor(b, a.failState))
                => Dispatched(a) /\ SentFor(a.name) # <<>>

\* C30 (amended): update() and remoteUpdate() dispatch only in a call in
\* which failState changes by value; every change made by update()
\* dispatches when the flag for the new value is true; a change made by
\* remoteUpdate() dispatches when the flag is true and either the new value
\* is failing with data.failCount >= data.threshold, or the new value is
\* passing and the prior value was failing.
C30_TransitionDispatch ==
    IsHandler =>
        LET b == pre[last.id]
            a == heap[last.id]
            counted == IF Truthy(a.failState)
                       THEN last.data.failCount >= last.data.threshold
                       ELSE Truthy(b.failState)
        IN /\ SentFor(a.name) # <<>> => a.failState # b.failState
           /\ (/\ a.failState # b.failState
               /\ FlagFor(b, a.failState)
               /\ last.op = "remoteUpdate" => counted)
                => Dispatched(a) /\ SentFor(a.name) # <<>>

\* a sequence already failing changes to another failing value and
\* dispatches
C30_Witness ==
    /\ IsUpdate
    /\ Truthy(pre[last.id].failState)
    /\ Truthy(heap[last.id].failState)
    /\ heap[last.id].failState # pre[last.id].failState
    /\ pre[last.id].failAction
    /\ Len(SentFor(heap[last.id].name)) = Len(heap[last.id].actions)
    /\ SentFor(heap[last.id].name) # <<>>

\* ---------------------------------------------------------------- C31
\* names of the registered probes whose trigger is an interval or cron trigger
Triggered ==
    {checks[i].k : i \in {j \in 1..Len(checks) :
                            heap[checks[j].v].trigger.kind \in {"interval", "cron"}}}

\* C31 as stated: after any sequence of site operations the job ids of the
\* scheduler are exactly the names of the registered probes that have an
\* interval or cron trigger, and each job's callback is the update of the
\* probe object registered under the job's id.
C31_Original ==
    /\ DictKeySet(jobs) = Triggered
    /\ \A j \in 1..Len(jobs) :
        DictHas(checks, jobs[j].k) /\ jobs[j].v = DictGet(checks, jobs[j].k)

\* ------------------------------- edits on a running site (__init__.py)
\* FletchSite.deleteCheck and FletchSite.updateCheck are plain methods: the
\* user interface calls them from a callback of the event loop, and they
\* run to their end in the loop's thread while the jobs' updates go on in
\* the threads of the pool.  Neither takes a lock, and remove_job does not
\* wait for a firing of the job that is in progress.

\* the user interface calls site.deleteCheck(name)
DeleteCheckCall ==
    /\ main.webui
    /\ main.pc \in {"waiting", "woken"}
    /\ LoopIdle
    /\ clock < MaxOps
    /\ \E name \in EditNames :
        \E s \in {deleteCheck(Site, name)} :
           /\ heap' = s.heap
           /\ checks' = s.checks
           /\ jobs' = s.jobs
           /\ last' = [op |-> "deleteCheck", id |-> 0, ret |-> PyNone,
                       name |-> name, exc |-> s.exc,
                       oldId |-> IF DictHas(checks, name)
                                 THEN DictGet(checks, name) ELSE 0]
    /\ pre' = heap
    /\ clock' = clock + 1
    /\ UNCHANGED <<actions, scheduler, sent, ran, outs, prior, codec>>
    /\ UNCHANGED <<fileVars, siteLog, lockVars, taskVars>>

\* the user interface calls site.updateCheck(name, name, config)
UpdateCheckCall ==
    /\ main.webui
    /\ main.pc \in {"waiting", "woken"}
    /\ LoopIdle
    /\ clock < MaxOps
    /\ \E name \in EditNames, config \in EditConfigs :
        \E s \in {updateCheck(Site, name, name, config)} :
           /\ heap' = s.heap
           /\ checks' = s.checks
           /\ jobs' = s.jobs
           /\ last' = [op |-> "updateCheck", id |-> 0, ret |-> PyNone,
                       name |-> name, exc |-> s.exc, newName |-> name,
                       oldId |-> IF DictHas(checks, name)
                                 THEN DictGet(checks, name) ELSE 0]
    /\ pre' = heap
    /\ clock' = clock + 1
    /\ UNCHANGED <<actions, scheduler, sent, ran, outs, prior, codec>>
    /\ UNCHANGED <<fileVars, siteLog, lockVars, taskVars>>

EditNext == RunNext \/ DeleteCheckCall \/ UpdateCheckCall

EditSpec == RunInit /\ [][EditNext]_vars

\* ---------------------------------------------------------------- C32
\* this step enters update() of the probe object id
Entered(id) ==
    \E t \in threads' :
        /\ t.stack[Len(t.stack)].id = id
        /\ \A u \in threads : u.task = t.task => Len(u.stack) < Len(t.stack)

\* C32 as stated: no step changes the site's probe map while a task is
\* inside an update(); no step changes the depends or checks map of a probe
\* whose update() a task is inside; and after deleteCheck(name) or
\* updateCheck(name, ...) has returned, no step enters update() of the
\* object that was registered under name.
C32_Original ==
    [][/\ checks' # checks => threads = {}
       /\ \A t \in threads : \A k \in 1..Len(t.stack) :
            /\ heap'[t.stack[k].id].depends = heap[t.stack[k].id].depends
            /\ heap'[t.stack[k].id].checks = heap[t.stack[k].id].checks
       /\ (last.op \in {"deleteCheck", "updateCheck"} /\ last.exc = "" /\ last.oldId # 0)
            => ~Entered(last.oldId)]_vars

\* ---------------------------------------------------------------- C33
\* the probe the last handler's update() was entered on, before and after
TopPre == pre[last.id]
TopNow == heap[last.id]

\* C33: an update() entered from a job or runCheck that is not soft-failed
\* calls _runCheck at least once and at most retries times; every call
\* before the last one failed (an https probe logs one line per call); the
\* outcome of the last call is curFail; and a failing curFail, which takes
\* all the retries, adds exactly 1 to failCount.
C33_RetryLoop ==
    (TopRan /\ outs[Len(outs)].id = last.id) =>
        /\ Calls([ran |-> ran], TopPre.name) \in 1..TopPre.retries
        /\ Truthy(TopCur) =>
            /\ Calls([ran |-> ran], TopPre.name) = TopPre.retries
            /\ TopNow.failCount = TopPre.failCount + 1
        /\ ~Truthy(TopCur) => TopNow.failCount = 0
        /\ TopPre.checkType = "https" =>
            /\ Len(TopNow.log) = Calls([ran |-> ran], TopPre.name)
            /\ \A k \in 1..(Len(TopNow.log) - 1) : TopNow.log[k] # "(200)"
            /\ Truthy(TopCur) <=> TopNow.log[Len(TopNow.log)] # "(200)"

\* a probe with retries 2 failed once and passed on the second call
C33_Witness ==
    /\ TopRan
    /\ outs[Len(outs)].id = last.id
    /\ TopPre.checkType = "https"
    /\ TopPre.retries = MaxRetries
    /\ TopNow.log = <<TopPre.name \o " ConnectionError", "(200)">>
    /\ ~Truthy(TopCur)

\* ---------------------------------------------------------------- C34
\* C34 as stated: every probe of the site has threshold >= 1 and
\* retries >= 1, whatever thresholds and retries the configuration gives at
\* its top level or inside data.
C34_Original ==
    \A i \in 1..Len(checks) :
        /\ heap[checks[i].v].threshold >= 1
        /\ heap[checks[i].v].retries >= 1

\* ------------------------------------ SSH host key pinning (check.py)
\* One ssh probe P with a job of its own, which a scheduled sequence lists
\* too: P.update() runs in the pool thread of either job, and the two can
\* be inside it at once.  A task of threads is here [task, pc, hostkey]:
\* hostkey is the local that _runCheck read from the options.

\* contacts made in one behaviour
MaxContacts == 3

\* the keys a server may present
Keys == {"A", "B"}

\* the jobs whose thread calls P.update()
SshTasks == {"P", "S"}

\* self.getStrOpt('hostkey'): the option, None when it is absent
getStrOpt(options) == options.hostkey

\* sshCheck._runCheck once the connection attempt is over: answer is the
\* key the server presented or "refused"; drop says the transport failed
\* after the key exchange (send_ignore or close raised)
sshCheck_runCheck(c, hostkey, answer, drop) ==
    IF answer = "refused"
    THEN [c |-> [c EXCEPT !.log = Append(@, "host ConnectionRefusedError")],
          ret |-> PyBool(TRUE)]
    ELSE IF hostkey # PyNone /\ hostkey # PyStr(answer)
    THEN [c |-> [c EXCEPT !.log = @ \o <<"host:22 " \o answer,
                                          "host ValueError: Invalid host key">>],
          ret |-> PyBool(TRUE)]
    ELSE [c |-> [c EXCEPT !.log = @ \o <<"host:22 " \o answer,
                                          IF drop THEN "host EOFError" ELSE "close: None">>,
                          !.options.hostkey = IF hostkey = PyNone
                                              THEN PyStr(answer) ELSE @],
          ret |-> PyBool(drop)]

\* the site after loadSite: P with or without a configured host key
SshInit ==
    /\ \E k \in {PyNone, PyStr("A")} :
        heap = <<[BaseCheck("P", [checks |-> <<>>, timeout |-> 0, hostkey |-> k])
                    EXCEPT !.checkType = "ssh", !.trigger = IntervalTrigger]>>
    /\ pre = heap
    /\ checks = <<[k |-> "P", v |-> 1]>>
    /\ actions = {}
    /\ jobs = <<[k |-> "P", v |-> 1]>>
    /\ scheduler = "running"
    /\ clock = 0
    /\ sent = <<>>
    /\ ran = <<>>
    /\ outs = <<>>
    /\ last = [op |-> "loadSite", id |-> 0, ret |-> PyNone]
    /\ prior = NoPrior
    /\ codec = NoCodec
    /\ ExtIdle

\* a job fires: update() up to the connection attempt of _runCheck
SshStart ==
    /\ clock + Cardinality(threads) < MaxContacts
    /\ \E task \in SshTasks :
        /\ \A t \in threads : t.task # task
        /\ threads' = threads \cup
                {[task |-> task, pc |-> "connect",
                  hostkey |-> getStrOpt(heap[1].options)]}
    /\ heap' = [heap EXCEPT ![1].lastCheck = clock + 1, ![1].softFail = PyNone,
                            ![1].oldLog = heap[1].log, ![1].log = <<>>]
    /\ pre' = heap
    /\ last' = [op |-> "start", id |-> 1, ret |-> PyNone]
    /\ UNCHANGED <<checks, actions, jobs, scheduler, clock, sent, ran, outs,
                   prior, codec, fileVars, siteLog, main, lockVars>>

\* the connection attempt is over: the rest of _runCheck and of update().
\* last keeps the answer and the option as the contact found it
SshContact ==
    /\ \E t \in threads, answer \in Keys \cup {"refused"}, drop \in BOOLEAN :
        \E r \in {sshCheck_runCheck(heap[1], t.hostkey, answer, drop)} :
           \E o \in {Outcome([st |-> [Fresh(heap) EXCEPT !.heap[1] = r.c,
                                                       !.ran = <<"P">>],
                              ret |-> r.ret], 1, clock + 1)} :
              /\ heap' = o.st.heap
              /\ sent' = o.st.sent
              /\ ran' = o.st.ran
              /\ outs' = o.st.outs
              /\ last' = [op |-> "contact", id |-> 1, ret |-> r.ret,
                          answer |-> answer, stored |-> heap[1].options.hostkey]
              /\ threads' = threads \ {t}
    /\ pre' = heap
    /\ clock' = clock + 1
    /\ UNCHANGED <<checks, actions, jobs, scheduler, prior, codec,
                   fileVars, siteLog, main, lockVars>>

SshNext == SshStart \/ SshContact

SshSpec == SshInit /\ [][SshNext]_vars

\* ---------------------------------------------------------------- C35
\* C35 as stated: a contact that finds options.hostkey unset stores the key
\* the server presents; once options.hostkey is set no step changes it; and
\* a contact that finds a key stored and is presented another one has a
\* failing outcome.
C35_Original ==
    [][/\ heap[1].options.hostkey # PyNone
            => heap'[1].options.hostkey = heap[1].options.hostkey
       /\ (last'.op = "contact" /\ last'.answer \in Keys) =>
            IF last'.stored = PyNone
            THEN heap'[1].options.hostkey = PyStr(last'.answer)
            ELSE PyStr(last'.answer) # last'.stored => Truthy(last'.ret)]_vars

\* ------------------------------ updates around an edit (util.py, check.py)
\* the probes the editor saves
CarryNames == {"D", "Y"}

\* what the editor puts into config.data: nothing, failState and failCount
\* of the probe being replaced, or all of its saved state
CarryKinds == {"none", "some", "all"}

\* the data of an edit of the probe object c
CarryData(c, kind) ==
    CASE kind = "all" ->
            [has |-> TRUE, failState |-> c.failState, failCount |-> c.failCount,
             threshold |-> c.threshold, lastFail |-> c.lastFail,
             lastPass |-> c.lastPass, log |-> c.log]
      [] kind = "some" ->
            [NoData EXCEPT !.has = TRUE, !.failState = c.failState,
                           !.failCount = c.failCount]
      [] OTHER -> NoData

\* the config of an edit: an https probe run on request
CarryConfig(c, kind) ==
    [Cfg("https", 1, 1, 0, <<TRUE, TRUE>>, <<>>, NoOptions, NoTrigger, FALSE)
        EXCEPT !.data = CarryData(c, kind)]

\* the site of D, Y, X and S, every probe loaded in the passing state
CarryInit ==
    \E site \in {loadSite(DocSite(<<>>))} :
       /\ heap = site.heap
       /\ pre = site.heap
       /\ checks = site.checks
       /\ actions = site.actions
       /\ jobs = site.jobs
       /\ scheduler = site.scheduler
       /\ clock = 0
       /\ sent = <<>>
       /\ ran = <<>>
       /\ outs = <<>>
       /\ last = [op |-> "loadSite", id |-> 0, ret |-> PyNone, name |-> "", exc |-> ""]
       /\ prior = NoPrior
       /\ codec = NoCodec
       /\ ExtIdle

\* the editor saves a probe under its own name; prior keeps the replaced
\* object, the data of the edit and the id of the new object
CarryUpdate ==
    /\ clock < MaxClock
    /\ \E name \in CarryNames, kind \in CarryKinds :
        /\ DictHas(checks, name)
        /\ \E config \in {CarryConfig(heap[DictGet(checks, name)], kind)} :
            \E s \in {updateCheck(Site, name, name, config)} :
               /\ heap' = s.heap
               /\ checks' = s.checks
               /\ jobs' = s.jobs
               /\ last' = [op |-> "updateCheck", id |-> 0, ret |-> PyNone,
                           name |-> name, exc |-> s.exc, newName |-> name,
                           oldId |-> DictGet(checks, name)]
               /\ prior' = [has |-> TRUE, ops |-> "updateCheck", name |-> name,
                            old |-> heap[DictGet(checks, name)],
                            data |-> config.data,
                            newId |-> DictGet(s.checks, name)]
    /\ pre' = heap
    /\ clock' = clock + 1
    /\ sent' = <<>>
    /\ ran' = <<>>
    /\ outs' = <<>>
    /\ UNCHANGED <<actions, scheduler, codec>>
    /\ UNCHANGED extVars

CarryNext == JobFires \/ RunCheck \/ CarryUpdate

CarrySpec == CarryInit /\ [][CarryNext]_vars

\* ---------------------------------------------------------------- C36
\* the last handler was the first update() of the probe that the last edit
\* built, and its retry loop ran
FirstAfterEdit ==
    /\ TopRan
    /\ prior.has
    /\ prior.ops = "updateCheck"
    /\ last.id = prior.newId
    /\ outs[Len(outs)].id = last.id
    /\ TopPre.lastCheck = 0

\* C36: the probe updateCheck builds has failState, failCount, lastFail,
\* lastPass and log of the replaced probe where config.data has the field
\* and the constructor's default where it has not; after an edit without
\* data the first update is evaluated against failState = True: a passing
\* outcome is a PASS transition with its notification, a failing outcome
\* is no transition and sends nothing, whatever the replaced probe's state.
C36_CarryState ==
    /\ (last.op = "updateCheck" /\ last.exc = "") =>
        /\ heap[prior.newId].failState =
                IF prior.data.has THEN prior.old.failState ELSE PyBool(TRUE)
        /\ heap[prior.newId].failCount =
                IF prior.data.has THEN prior.old.failCount ELSE 0
        /\ heap[prior.newId].lastFail =
                IF prior.data.has /\ prior.data.lastFail # 0 THEN prior.old.lastFail ELSE 0
        /\ heap[prior.newId].lastPass =
                IF prior.data.has /\ prior.data.lastPass # 0 THEN prior.old.lastPass ELSE 0
        /\ heap[prior.newId].log =
                IF prior.data.has /\ prior.data.log # <<>> THEN prior.old.log ELSE <<>>
    /\ (FirstAfterEdit /\ ~prior.data.has) =>
        /\ TopPre.failState = PyBool(TRUE)
        /\ TopPre.failCount = 0
        /\ TopPre.lastFail = 0
        /\ TopPre.lastPass = 0
        /\ IF Truthy(TopCur)
           THEN /\ TopNow.failState = PyBool(TRUE)
                /\ TopNow.lastFail = 0
                /\ sent = <<>>
           ELSE /\ TopNow.failState = TopCur
                /\ TopNow.lastPass = clock
                /\ sent # <<>>
                /\ \A k \in 1..Len(sent) :
                    sent[k].check = TopPre.name /\ sent[k].failState = TopCur

\* a passing probe was saved without data and its first update passed: a
\* PASS notification went out
C36_Witness ==
    /\ FirstAfterEdit
    /\ ~prior.data.has
    /\ prior.old.failState = PyBool(FALSE)
    /\ prior.old.lastCheck # 0
    /\ ~Truthy(TopCur)
    /\ sent # <<>>

\* ---------------------------------------- dependency cycles (check.py)
\* probes A and B that depend on each other; A is an https or a remote
\* probe; each is new (failing) or loaded in the passing state
DocCycle(type, loadedA, loadedB) ==
    [actions |-> {"email", "sms"},
     checks |-> <<
        [name |-> "A", cfg |-> Cfg(type, 1, 1, 0, <<TRUE, TRUE>>, <<"B">>,
                                   NoOptions, IntervalTrigger, loadedA)],
        [name |-> "B", cfg |-> Cfg("https", 1, 1, 0, <<TRUE, TRUE>>, <<"A">>,
                                   NoOptions, IntervalTrigger, loadedB)] >>]

\* new probes A -> B -> C -> A
DocCycle3 ==
    [actions |-> {"email", "sms"},
     checks |-> <<
        [name |-> "A", cfg |-> Cfg("https", 1, 1, 0, <<TRUE, TRUE>>, <<"B">>,
                                   NoOptions, IntervalTrigger, FALSE)],
        [name |-> "B", cfg |-> Cfg("https", 1, 1, 0, <<TRUE, TRUE>>, <<"C">>,
                                   NoOptions, NoTrigger, FALSE)],
        [name |-> "C", cfg |-> Cfg("https", 1, 1, 0, <<TRUE, TRUE>>, <<"A">>,
                                   NoOptions, NoTrigger, FALSE)] >>]

CycleDocuments ==
    {DocCycle(type, a, b) : type \in {"https", "remote"}, a \in BOOLEAN, b \in BOOLEAN}
    \cup {DocCycle3}

CycleInit ==
    \E doc \in CycleDocuments :
        \E site \in {loadSite(doc)} :
           /\ heap = site.heap
           /\ pre = site.heap
           /\ checks = site.checks
           /\ actions = site.actions
           /\ jobs = site.jobs
           /\ scheduler = site.scheduler
           /\ clock = 0
           /\ sent = <<>>
           /\ ran = <<>>
           /\ outs = <<>>
           /\ last = [op |-> "loadSite", id |-> 0, ret |-> PyNone]
           /\ prior = NoPrior
           /\ codec = NoCodec
           /\ ExtIdle

CycleNext == JobFires \/ RunCheck \/ RemoteUpdate

CycleSpec == CycleInit /\ [][CycleNext]_vars

\* ---------------------------------------------------------------- C37
\* the objects a probe depends on
Deps(h, id) == {h[id].depends[i].v : i \in 1..Len(h[id].depends)}

\* ids and what they reach through n dependency edges
RECURSIVE DepReach(_, _, _)
DepReach(h, ids, n) ==
    IF n = 0 THEN ids
    ELSE DepReach(h, ids \cup UNION {Deps(h, i) : i \in ids}, n - 1)

\* the probes on a dependency cycle through id
Cycle(h, id) ==
    {j \in DepReach(h, Deps(h, id), Len(h)) : id \in DepReach(h, Deps(h, j), Len(h))}

\* id is on a dependency cycle whose probes are all failing
Stuck(h, id) ==
    /\ id \in Cycle(h, id)
    /\ \A j \in Cycle(h, id) : Truthy(h[j].failState)

\* C37 as stated: once every probe of a dependency cycle is failing, no
\* step calls _runCheck of any of them or takes any of them out of the
\* failing state, and every update() of one of them soft-fails.
C37_Original ==
    [][\A id \in 1..Len(heap) :
        Stuck(heap, id) =>
            /\ Truthy(heap'[id].failState)
            /\ heap[id].name \notin SeqSet(ran')
            /\ (last'.op \in {"job", "runCheck"} /\ last'.id = id) =>
                    /\ heap'[id].softFail # PyNone
                    /\ Truthy(last'.ret)]_vars

\* C37: an update() from a job or runCheck that finds every probe of a
\* dependency cycle failing calls _runCheck of none of them and changes
\* the failState of none of them; when it is the update() of one of them
\* it takes the soft-fail branch and returns True.
C37_CycleSoftFail ==
    IsUpdate =>
        \A id \in 1..Len(pre) :
            Stuck(pre, id) =>
                /\ heap[id].failState = pre[id].failState
                /\ pre[id].name \notin SeqSet(ran)
                /\ last.id = id =>
                        /\ heap[id].softFail # PyNone
                        /\ heap[id].lastCheck = clock
                        /\ last.ret = PyBool(TRUE)

\* the new probe A of the cycle A -> B -> C -> A was updated
C37_Witness ==
    /\ IsUpdate
    /\ Len(heap) = 3
    /\ Stuck(pre, last.id)
    /\ Cardinality(Cycle(pre, last.id)) = 3
    /\ heap[last.id].softFail = PyStr("B")
    /\ ran = <<>>

\* ------------------------------------------ nested sequences (check.py)
\* sequences S1 and S2 and the https probe Y; lists[1] and lists[2] are
\* the options.checks of S1 and S2
DocNest(lists) ==
    [actions |-> {"email", "sms"},
     checks |-> <<
        [name |-> "Y", cfg |-> Cfg("https", 1, 1, 0, <<TRUE, TRUE>>, <<>>,
                                   NoOptions, NoTrigger, TRUE)],
        [name |-> "S1", cfg |-> Cfg("sequence", 1, 1, 0, <<TRUE, TRUE>>, <<>>,
                                    [checks |-> lists[1], timeout |-> 0],
                                    IntervalTrigger, TRUE)],
        [name |-> "S2", cfg |-> Cfg("sequence", 1, 1, 0, <<TRUE, TRUE>>, <<>>,
                                    [checks |-> lists[2], timeout |-> 0],
                                    IntervalTrigger, TRUE)] >>]

\* S1 lists S2, which lists Y; S1 lists itself; S1 and S2 list each other
NestDocuments ==
    {DocNest(<<<<"S2">>, <<"Y">>>>),
     DocNest(<<<<"S1", "Y">>, <<"Y">>>>),
     DocNest(<<<<"Y", "S2">>, <<"S1">>>>)}

NestInit ==
    \E doc \in NestDocuments :
        \E site \in {loadSite(doc)} :
           /\ heap = site.heap
           /\ pre = site.heap
           /\ checks = site.checks
           /\ actions = site.actions
           /\ jobs = site.jobs
           /\ scheduler = site.scheduler
           /\ clock = 0
           /\ sent = <<>>
           /\ ran = <<>>
           /\ outs = <<>>
           /\ last = [op |-> "loadSite", id |-> 0, ret |-> PyNone, exc |-> site.exc]
           /\ prior = NoPrior
           /\ codec = NoCodec
           /\ ExtIdle

NestNext == JobFires \/ RunCheck

NestSpec == NestInit /\ [][NestNext]_vars

\* ---------------------------------------------------------------- C38
\* C38 as stated: on every site loadConfig accepts, update() of a sequence
\* probe comes to its end and returns its outcome.
C38_Original ==
    /\ last.op = "loadSite" => last.exc = ""
    /\ (IsUpdate /\ pre[last.id].checkType = "sequence") =>
        /\ last.exc = ""
        /\ last.ret.ty = "str"

\* ---------------------------------------------------------------- C39
\* C39 as stated: an updateCheck that fails because the config's type is
\* unknown, the scheduler rejects the trigger or the new name is the id of
\* a job leaves site.checks, the scheduler's jobs and every probe object
\* (its depends and checks edges included) as they were before the call.
C39_Original ==
    [][(/\ last'.op = "updateCheck"
        /\ last'.exc \in {"AttributeError", "ValueError", "ConflictingIdError"})
        => /\ checks' = checks
           /\ jobs' = jobs
           /\ \A id \in 1..Len(heap) : heap'[id] = heap[id]]_vars

\* ------------------------------------- actions that fail (check.py)
\* the actions whose trigger() raises during one handler
Raising == {{}, {"email"}, {"sms"}}

\* the sites updated: D, Y, X and S with threshold 1 and one retry
RaiseDocuments ==
    {DocSequence(1, 1, flags, loaded) : flags \in Flags, loaded \in BOOLEAN}

RaiseInit ==
    \E doc \in RaiseDocuments :
        \E site \in {loadSite(doc)} :
           /\ heap = site.heap
           /\ pre = site.heap
           /\ checks = site.checks
           /\ actions = site.actions
           /\ jobs = site.jobs
           /\ scheduler = site.scheduler
           /\ clock = 0
           /\ sent = <<>>
           /\ ran = <<>>
           /\ outs = <<>>
           /\ last = [op |-> "loadSite", id |-> 0, ret |-> PyNone, exc |-> "",
                      raises |-> {}]
           /\ prior = NoPrior
           /\ codec = NoCodec
           /\ ExtIdle

\* the handler body of a job or runCheck while the actions of raises fail;
\* prior keeps what the handler before this one did
DoRaise(op, id) ==
    /\ clock < MaxClock
    /\ \E env \in Env(heap, Reach(heap, id, MaxDepth)), raises \in Raising :
        \E r \in {BaseCheck_update([Fresh(heap) EXCEPT !.raises = raises],
                                   id, env, clock + 1, MaxDepth)} :
           /\ heap' = r.st.heap
           /\ pre' = heap
           /\ sent' = r.st.sent
           /\ ran' = r.st.ran
           /\ outs' = r.st.outs
           /\ last' = [op |-> op, id |-> id, ret |-> r.ret, exc |-> r.st.exc,
                       raises |-> raises]
    /\ prior' = [has |-> TRUE, ops |-> "update", last |-> last, sent |-> sent,
                 outs |-> outs]
    /\ clock' = clock + 1
    /\ UNCHANGED <<checks, actions, jobs, scheduler, codec>>
    /\ UNCHANGED extVars

\* the scheduler fires a job
RaiseJob ==
    /\ scheduler = "running"
    /\ \E i \in 1..Len(jobs) : DoRaise("job", jobs[i].v)

\* FletchSite.runCheck(name), for the probes no job runs
RaiseRunCheck ==
    \E i \in 1..Len(checks) :
        /\ ~DictHas(jobs, checks[i].k)
        /\ DoRaise("runCheck", checks[i].v)

RaiseNext == RaiseJob \/ RaiseRunCheck

RaiseSpec == RaiseInit /\ [][RaiseNext]_vars

\* ---------------------------------------------------------------- C40
\* the position in c.actions of the first action of raises
FirstRaising(c, raises) ==
    CHOOSE i \in 1..Len(c.actions) :
        /\ c.actions[i] \in raises
        /\ \A j \in 1..(i - 1) : c.actions[j] \notin raises

\* C40: when a trigger() raised in the last handler, the probe whose
\* notify() it was has the transition committed (failState is the outcome,
\* lastFail or lastPass is stamped, failCount is one more or 0), the
\* trigger() calls of that notify() end with the action that raised, and
\* when the next handler updates the probe with the same outcome it sends
\* nothing for it.
C40_RaisingAction ==
    /\ last.exc = "ActionError" =>
        LET v == outs[Len(outs)].id
            cur == outs[Len(outs)].cur
            k == FirstRaising(heap[v], last.raises)
        IN /\ heap[v].failState = cur
           /\ IF Truthy(cur)
              THEN heap[v].lastFail = clock /\ heap[v].failCount = pre[v].failCount + 1
              ELSE heap[v].lastPass = clock /\ heap[v].failCount = 0
           /\ Len(SentFor(heap[v].name)) = k
           /\ \A i \in 1..k :
                /\ sent[Len(sent) - k + i].check = heap[v].name
                /\ sent[Len(sent) - k + i].action = heap[v].actions[i]
    /\ (prior.has /\ prior.ops = "update" /\ prior.last.exc = "ActionError") =>
        \A j \in 1..Len(outs) :
            (/\ outs[j].id = prior.outs[Len(prior.outs)].id
             /\ outs[j].cur = prior.outs[Len(prior.outs)].cur)
                => SentFor(heap[outs[j].id].name) = <<>>

\* the first of two actions raised on a transition, and the next handler
\* updated the probe with the same outcome
C40_Witness ==
    /\ prior.has
    /\ prior.ops = "update"
    /\ prior.last.exc = "ActionError"
    /\ Len(prior.sent) = 1
    /\ last.exc = ""
    /\ \E j \in 1..Len(outs) :
        /\ outs[j].id = prior.outs[Len(prior.outs)].id
        /\ outs[j].cur = prior.outs[Len(prior.outs)].cur
        /\ Len(heap[outs[j].id].actions) = 2
        /\ sent = <<>>

====
